---------------------------- MODULE Spec2Model ----------------------------
(***************************************************************************)
(* Model of the fear-greed-index library: the fetcher (scrape_cnn.py),     *)
(* the model builder (CNNFearAndGreedIndex.py, FearAndGreedIndicator.py)   *)
(* and the derived metrics of its front-ends (api_server.py, fgi_cli.py,   *)
(* fgi_mcp_server.py).                                                     *)
(*                                                                         *)
(* Python values are records [t, n, s, m]: t is the type tag, n the        *)
(* number (scores are fixed-point, Scale units per point), s the string,   *)
(* m the entries of a list or of a dict (a dict keeps its entries in       *)
(* insertion order, as json.loads builds it).                              *)
(***************************************************************************)
EXTENDS Integers, Sequences, FiniteSets, TLC

\* Fixed-point resolution of a score: Scale units are one point (19.9 is 199).
Scale == 10
\* Length of the longest historical series the upstream documents carry.
MaxPoints == 3
\* Number of constructor / fetch calls followed in one behaviour.
MaxCalls == 2

---------------------------------------------------------------------------
(* Python values *)

PyNone == [t |-> "none", n |-> 0, s |-> "", m |-> <<>>]

PyNum(x) == [t |-> "num", n |-> x, s |-> "", m |-> <<>>]

PyStr(x) == [t |-> "str", n |-> 0, s |-> x, m |-> <<>>]

PyList(items) == [t |-> "list", n |-> 0, s |-> "",
                  m |-> [i \in 1..Len(items) |-> [k |-> "", v |-> items[i]]]]

\* A dict literal: entries is a sequence of [k |-> key, v |-> value].
PyDict(entries) == [t |-> "dict", n |-> 0, s |-> "", m |-> entries]

\* A datetime object; n is the instant in seconds.
PyDatetime(x) == [t |-> "datetime", n |-> x, s |-> "", m |-> <<>>]

KV(key, val) == [k |-> key, v |-> val]

IsDict(v) == v.t = "dict"

IsNumber(v) == v.t = "num"

IsString(v) == v.t = "str"

\* bool(v), as `if data:` and `if timestamp_str:` evaluate it.
Truthy(v) ==
    CASE v.t = "none" -> FALSE
      [] v.t = "num" -> v.n # 0
      [] v.t = "str" -> v.s # ""
      [] v.t \in {"list", "dict"} -> v.m # <<>>
      [] OTHER -> TRUE

HasKey(d, key) == \E i \in 1..Len(d.m) : d.m[i].k = key

\* dict.get(key, default): the value stored under key (the last entry wins,
\* as json.loads keeps it), the default only when the key is absent.
DictGet(d, key, default) ==
    IF HasKey(d, key)
    THEN LET i == CHOOSE j \in 1..Len(d.m) :
                      /\ d.m[j].k = key
                      /\ \A h \in (j+1)..Len(d.m) : d.m[h].k # key
         IN d.m[i].v
    ELSE default


\* The value of "nothing was returned": the caller's name stays unbound
\* because the call raised.
Unbound == [t |-> "unbound", n |-> 0, s |-> "", m |-> <<>>]

---------------------------------------------------------------------------
(* scrape_cnn.py: the fetcher *)

\* Exceptions of the requests library and of the builder; NoExc is a normal
\* return.
NoExc == ""

TransportExcs == {"Timeout", "ConnectionError", "HTTPError"}

\* requests.get(API_URL, headers=_HEADERS, timeout=30) against an upstream
\* that answers with `up`: the call raises on a timeout or on a connection
\* failure and otherwise returns the final response.
RequestsGet(up) ==
    CASE up.kind = "timeout" -> [exc |-> "Timeout", response |-> Unbound]
      [] up.kind = "refused" -> [exc |-> "ConnectionError", response |-> Unbound]
      [] OTHER -> [exc |-> NoExc, response |-> up]

\* Response.raise_for_status(): HTTPError for a 4xx or 5xx status.
RaisesForStatusServerOnly(status) == 500 <= status /\ status < 600

RaisesForStatus(status) == 400 <= status /\ status < 600

\* Response.json(): the decoded body, JSONDecodeError when it is not JSON.
ResponseJsonAsTransport(response) ==
    IF response.body.valid
    THEN [exc |-> NoExc, value |-> response.body.json]
    ELSE [exc |-> "HTTPError", value |-> Unbound]

ResponseJson(response) ==
    IF response.body.valid
    THEN [exc |-> NoExc, value |-> response.body.json]
    ELSE [exc |-> "JSONDecodeError", value |-> Unbound]

\* _get_fear_greed_data(): one GET, the status check, the JSON decoding.
\* gets counts the HTTP GETs issued, status is the status code the raised
\* HTTPError carries (0: none), parsed tells whether the body was decoded.
GetFearGreedDataRetry(up) ==
    LET first == RequestsGet(up)
        failed == \/ first.exc # NoExc
                  \/ RaisesForStatus(first.response.status)
                  \/ ResponseJson(first.response).exc # NoExc
        got == IF failed THEN RequestsGet(up) ELSE first
        n == IF failed THEN 2 ELSE 1
    IN IF got.exc # NoExc
       THEN [exc |-> got.exc, doc |-> Unbound, gets |-> n, status |-> 0,
             parsed |-> FALSE]
       ELSE IF RaisesForStatus(got.response.status)
       THEN [exc |-> "HTTPError", doc |-> Unbound, gets |-> n,
             status |-> got.response.status, parsed |-> FALSE]
       ELSE LET js == ResponseJson(got.response)
            IN [exc |-> js.exc, doc |-> js.value, gets |-> n, status |-> 0,
                parsed |-> TRUE]

GetFearGreedData(up) ==
    LET got == RequestsGet(up)
    IN IF got.exc # NoExc
       THEN [exc |-> got.exc, doc |-> Unbound, gets |-> 1, status |-> 0,
             parsed |-> FALSE]
       ELSE IF RaisesForStatus(got.response.status)
       THEN [exc |-> "HTTPError", doc |-> Unbound, gets |-> 1,
             status |-> got.response.status, parsed |-> FALSE]
       ELSE LET js == ResponseJson(got.response)
            IN [exc |-> js.exc, doc |-> js.value, gets |-> 1, status |-> 0,
                parsed |-> TRUE]

---------------------------------------------------------------------------
(* FearAndGreedIndicator.py: one indicator *)

\* The composite timestamps the upstream documents carry: an ISO string with
\* the UTC offset written +00:00, one without offset, one that is no date.
TS_OFFSET == "2024-01-15T12:00:00+00:00"

TS_COMPACT == "2024-01-15T12:00:00+0000"

TS_NAIVE == "2024-01-15T12:00:00"

TS_GARBAGE == "not-a-date"

\* str.replace("+00:00", "+0000") on the strings above.
ReplaceOffset(str) == IF str = TS_OFFSET THEN TS_COMPACT ELSE str

\* datetime.fromisoformat(str): ValueError when the string does not parse.
\* An offset without colon parses from Python 3.11 on only (compactOk).
FromIsoFormat(str, compactOk) ==
    CASE str = TS_NAIVE -> [exc |-> NoExc, value |-> PyDatetime(43200)]
      [] str = TS_OFFSET -> [exc |-> NoExc, value |-> PyDatetime(43200)]
      [] str = TS_COMPACT /\ compactOk ->
             [exc |-> NoExc, value |-> PyDatetime(43200)]
      [] OTHER -> [exc |-> "ValueError", value |-> Unbound]

\* datetime.fromtimestamp(timestamp_ms / 1000): TypeError unless a number.
FromTimestampMs(v) ==
    IF IsNumber(v)
    THEN [exc |-> NoExc, value |-> PyDatetime(v.n \div 1000)]
    ELSE [exc |-> "TypeError", value |-> Unbound]

\* FearAndGreedIndicator.__init__ before the data is loaded.
EmptyIndicator(name) ==
    [t |-> "indicator", name |-> name, score |-> PyNum(0),
     rating |-> PyStr("N/A"), timestamp |-> PyNone,
     historical_data |-> PyList(<<>>)]

\* FearAndGreedIndicator._load_from_data(data): [obj, exc].
LoadFromData(ind, data) ==
    IF ~IsDict(data)
    THEN [obj |-> ind, exc |-> "AttributeError"]
    ELSE LET scored == [ind EXCEPT
                          !.score = DictGet(data, "score", PyNum(0)),
                          !.rating = DictGet(data, "rating", PyStr("N/A"))]
             timestamp_ms == DictGet(data, "timestamp", PyNone)
             stamp == FromTimestampMs(timestamp_ms)
         IN IF Truthy(timestamp_ms) /\ stamp.exc # NoExc
            THEN [obj |-> scored, exc |-> stamp.exc]
            ELSE [obj |-> [scored EXCEPT
                     !.timestamp = IF Truthy(timestamp_ms)
                                   THEN stamp.value ELSE @,
                     !.historical_data = DictGet(data, "data", PyList(<<>>))],
                  exc |-> NoExc]

\* FearAndGreedIndicator(name, data): the data is loaded only when truthy.
FearAndGreedIndicatorOrNone(name, data) ==
    IF Truthy(data)
    THEN LoadFromData(EmptyIndicator(name), data)
    ELSE [obj |-> PyNone, exc |-> NoExc]

FearAndGreedIndicator(name, data) ==
    IF Truthy(data)
    THEN LoadFromData(EmptyIndicator(name), data)
    ELSE [obj |-> EmptyIndicator(name), exc |-> NoExc]

---------------------------------------------------------------------------
(* CNNFearAndGreedIndex.py: the composite index *)

\* _INDICATOR_MAP: API key -> indicator name.
INDICATOR_MAP ==
    [junk_bond_demand |-> "Junk Bond Demand",
     market_volatility_vix |-> "Market Volatility (VIX)",
     put_call_options |-> "Put and Call Options",
     market_momentum_sp500 |-> "Market Momentum (S&P 500)",
     stock_price_strength |-> "Stock Price Strength",
     stock_price_breadth |-> "Stock Price Breadth",
     safe_haven_demand |-> "Safe Haven Demand"]

\* The seven assignments of _load_fear_and_greed, in program order: the
\* attribute that is set and the API key it is loaded from.
IndicatorSlots ==
    << [attr |-> "junk_bond_demand", key |-> "junk_bond_demand"],
       [attr |-> "market_volatility", key |-> "market_volatility_vix"],
       [attr |-> "put_call_options", key |-> "put_call_options"],
       [attr |-> "market_momentum", key |-> "market_momentum_sp500"],
       [attr |-> "stock_price_strength", key |-> "stock_price_strength"],
       [attr |-> "stock_price_breadth", key |-> "stock_price_breadth"],
       [attr |-> "safe_haven_demand", key |-> "safe_haven_demand"] >>

NumIndicators == Len(IndicatorSlots)

\* CNNFearAndGreedIndex.__init__ before _load_fear_and_greed runs.
EmptyIndex ==
    [t |-> "index", score |-> PyNum(0), rating |-> PyStr("N/A"),
     previous_close |-> PyNum(0), previous_1_week |-> PyNum(0),
     previous_1_month |-> PyNum(0), previous_1_year |-> PyNum(0),
     timestamp |-> PyNone, historical_data |-> PyList(<<>>),
     junk_bond_demand |-> PyNone, market_volatility |-> PyNone,
     put_call_options |-> PyNone, market_momentum |-> PyNone,
     stock_price_strength |-> PyNone, stock_price_breadth |-> PyNone,
     safe_haven_demand |-> PyNone]

\* The all_indicators property.
all_indicators_swapped(self) ==
    << self.junk_bond_demand, self.market_volatility, self.market_momentum,
       self.put_call_options, self.stock_price_strength,
       self.stock_price_breadth, self.safe_haven_demand >>

all_indicators(self) ==
    << self.junk_bond_demand, self.market_volatility, self.put_call_options,
       self.market_momentum, self.stock_price_strength,
       self.stock_price_breadth, self.safe_haven_demand >>

\* A step of the build: the object so far, the exception raised (NoExc:
\* none) and the raw key whose value raised it.
Built(self) == [obj |-> self, exc |-> NoExc, site |-> ""]

Raised(self, exc, site) == [obj |-> self, exc |-> exc, site |-> site]

\* Lines 84-90: the composite fields.
LoadMainNoDefaults(self, data) ==
    IF ~IsDict(data) THEN Raised(self, "AttributeError", "") ELSE
    LET fg_data == DictGet(data, "fear_and_greed", PyDict(<<>>))
    IN IF ~IsDict(fg_data)
       THEN Raised(self, "AttributeError", "fear_and_greed")
       ELSE Built([self EXCEPT
              !.score = DictGet(fg_data, "score", PyNone),
              !.rating = DictGet(fg_data, "rating", PyNone),
              !.previous_close = DictGet(fg_data, "previous_close", PyNone),
              !.previous_1_week = DictGet(fg_data, "previous_1_week", PyNone),
              !.previous_1_month =
                  DictGet(fg_data, "previous_1_month", PyNone),
              !.previous_1_year =
                  DictGet(fg_data, "previous_1_year", PyNone)])

LoadMain(self, data) ==
    IF ~IsDict(data) THEN Raised(self, "AttributeError", "") ELSE
    LET fg_data == DictGet(data, "fear_and_greed", PyDict(<<>>))
    IN IF ~IsDict(fg_data)
       THEN Raised(self, "AttributeError", "fear_and_greed")
       ELSE Built([self EXCEPT
              !.score = DictGet(fg_data, "score", PyNum(0)),
              !.rating = DictGet(fg_data, "rating", PyStr("N/A")),
              !.previous_close = DictGet(fg_data, "previous_close", PyNum(0)),
              !.previous_1_week =
                  DictGet(fg_data, "previous_1_week", PyNum(0)),
              !.previous_1_month =
                  DictGet(fg_data, "previous_1_month", PyNum(0)),
              !.previous_1_year =
                  DictGet(fg_data, "previous_1_year", PyNum(0))])

\* Lines 92-94: the composite timestamp.
LoadTimestamp(self, data, compactOk) ==
    LET fg_data == DictGet(data, "fear_and_greed", PyDict(<<>>))
        timestamp_str == DictGet(fg_data, "timestamp", PyNone)
    IN IF ~Truthy(timestamp_str) THEN Built(self)
       ELSE IF ~IsString(timestamp_str)
       THEN Raised(self, "AttributeError", "fear_and_greed.timestamp")
       ELSE LET parsed ==
                    FromIsoFormat(ReplaceOffset(timestamp_str.s), compactOk)
            IN IF parsed.exc # NoExc
               THEN Raised(self, parsed.exc, "fear_and_greed.timestamp")
               ELSE Built([self EXCEPT !.timestamp = parsed.value])

\* Lines 97-98: the historical series.
LoadHistorical(self, data) ==
    LET fg_historical ==
            DictGet(data, "fear_and_greed_historical", PyDict(<<>>))
    IN IF ~IsDict(fg_historical)
       THEN Raised(self, "AttributeError", "fear_and_greed_historical")
       ELSE Built([self EXCEPT !.historical_data =
                       DictGet(fg_historical, "data", PyList(<<>>))])

\* Lines 101-128: the indicators from slot i on, one after the other.
RECURSIVE LoadIndicators(_, _, _)
LoadIndicators(self, data, i) ==
    IF i > NumIndicators THEN Built(self) ELSE
    LET slot == IndicatorSlots[i]
        made == FearAndGreedIndicator(INDICATOR_MAP[slot.key],
                                      DictGet(data, slot.key, PyNone))
    IN IF made.exc # NoExc
       THEN Raised(self, made.exc, slot.key)
       ELSE LoadIndicators([self EXCEPT ![slot.attr] = made.obj], data, i + 1)

\* _load_fear_and_greed from line 84 on, once the document is fetched.
LoadFearAndGreed(self, data, compactOk) ==
    LET main == LoadMain(self, data) IN
    IF main.exc # NoExc THEN main ELSE
    LET stamped == LoadTimestamp(main.obj, data, compactOk) IN
    IF stamped.exc # NoExc THEN stamped ELSE
    LET hist == LoadHistorical(stamped.obj, data) IN
    IF hist.exc # NoExc THEN hist ELSE
    LoadIndicators(hist.obj, data, 1)

\* CNNFearAndGreedIndex(): what the caller gets. obj is the new object, or
\* Unbound when the constructor raised; self is the object as the constructor
\* left it; gets counts the HTTP GETs and fetches the calls of
\* _get_fear_greed_data.
ConstructSwallowing(up, compactOk) ==
    LET fetched == GetFearGreedData(up)
        loaded == IF fetched.exc # NoExc
                  THEN Raised(EmptyIndex, fetched.exc, "")
                  ELSE LoadFearAndGreed(EmptyIndex, fetched.doc, compactOk)
    IN [obj |-> loaded.obj, exc |-> NoExc, site |-> loaded.site,
        self |-> loaded.obj, gets |-> fetched.gets, fetches |-> 1,
        fetched |-> fetched]

Construct(up, compactOk) ==
    LET fetched == GetFearGreedData(up)
        loaded == IF fetched.exc # NoExc
                  THEN Raised(EmptyIndex, fetched.exc, "")
                  ELSE LoadFearAndGreed(EmptyIndex, fetched.doc, compactOk)
    IN [obj |-> IF loaded.exc = NoExc THEN loaded.obj ELSE Unbound,
        exc |-> loaded.exc, site |-> loaded.site, self |-> loaded.obj,
        gets |-> fetched.gets, fetches |-> 1, fetched |-> fetched]

---------------------------------------------------------------------------
(* The upstream: what the endpoint can answer *)

\* Optional entry of a dict literal: no entry when the value is Unbound.
Opt(key, val) == IF val = Unbound THEN <<>> ELSE <<KV(key, val)>>

\* The points of a historical series: x in milliseconds, y a score.
Point(x, y, rating) ==
    PyDict(<<KV("x", PyNum(x)), KV("y", PyNum(y)), KV("rating", PyStr(rating))>>)

Points ==
    {Point(86400000, 30 * Scale + 1, "fear"),
     Point(172800000, 72 * Scale + 3, "greed"),
     Point(43200000, 50 * Scale, "neutral")}

RECURSIVE SeqsUpTo(_, _)
SeqsUpTo(S, n) ==
    IF n = 0 THEN {<<>>}
    ELSE LET shorter == SeqsUpTo(S, n - 1)
         IN shorter \cup {Append(q, x) : q \in shorter, x \in S}

Series == SeqsUpTo(Points, MaxPoints)

\* A well-formed sub-object of indicator i (its score tells the key).
FullIndicator(i) ==
    PyDict(<<KV("score", PyNum(10 * i * Scale + i)),
             KV("rating", PyStr(IF i < 4 THEN "fear" ELSE "greed")),
             KV("timestamp", PyNum(86400000 * i)),
             KV("data", PyList(<<Point(86400000 * i, 10 * i * Scale, "fear")>>))>>)

\* Other values found under an indicator key.
OddIndicators ==
    {PyDict(<<>>), PyStr("n/a"), PyStr(""), PyNum(0), PyNum(7),
     PyList(<<PyNum(1)>>),
     PyDict(<<KV("score", PyNone), KV("rating", PyNone)>>),
     PyDict(<<KV("score", PyStr("high")), KV("rating", PyNum(3))>>),
     PyDict(<<KV("rating", PyStr("fear")), KV("timestamp", PyStr("now"))>>),
     PyDict(<<KV("score", PyNum(150 * Scale)), KV("timestamp", PyNum(0))>>)}

\* The "fear_and_greed" sub-objects: every field present or not, well typed
\* or not.
FgDicts ==
    {PyDict(Opt("score", sc) \o Opt("rating", ra) \o Opt("previous_close", pc)
            \o Opt("previous_1_week", pw) \o Opt("previous_1_month", pm)
            \o Opt("previous_1_year", py) \o Opt("timestamp", ts)) :
        sc \in {Unbound, PyNone, PyNum(72 * Scale + 3), PyStr("72.3")},
        ra \in {Unbound, PyNone, PyStr("greed")},
        pc \in {Unbound, PyNone, PyNum(70 * Scale + 1)},
        pw \in {Unbound, PyNum(65 * Scale)},
        pm \in {Unbound, PyNum(48 * Scale + 9)},
        py \in {Unbound, PyNum(80 * Scale)},
        ts \in {Unbound, PyNone, PyStr(""), PyStr(TS_OFFSET), PyStr(TS_NAIVE),
                PyStr(TS_GARBAGE), PyNum(1705320000)}}

FgValues == FgDicts \cup {Unbound, PyNone, PyStr("greed"), PyList(<<>>)}

HistoricalValues ==
    {Unbound, PyNone, PyList(<<>>), PyDict(<<>>),
     PyDict(<<KV("data", PyNone)>>)}
    \cup {PyDict(<<KV("data", PyList(q))>>) : q \in Series}

IndicatorKey(i) == IndicatorSlots[i].key

\* Documents that vary the composite part.
MainDocs ==
    {PyDict(Opt("fear_and_greed", fg)) : fg \in FgValues}
    \cup {PyDict(Opt("fear_and_greed", PyDict(<<KV("score", PyNum(20 * Scale))>>))
                 \o Opt("fear_and_greed_historical", h)) :
             h \in HistoricalValues}
    \cup {PyDict(<<KV("fear_and_greed", PyDict(<<KV("score", PyNum(x))>>))>>) :
             x \in {-5 * Scale, 0, 100 * Scale, 100 * Scale + 1, 150 * Scale}}

\* Documents that vary the indicators: each key absent, null or well formed.
IndicatorChoices == [1..NumIndicators -> {"absent", "null", "full"}]

RECURSIVE IndicatorEntries(_, _)
IndicatorEntries(choice, i) ==
    IF i > NumIndicators THEN <<>>
    ELSE Opt(IndicatorKey(i),
             CASE choice[i] = "absent" -> Unbound
               [] choice[i] = "null" -> PyNone
               [] OTHER -> FullIndicator(i))
         \o IndicatorEntries(choice, i + 1)

IndicatorDocs ==
    {PyDict(IndicatorEntries(c, 1)) : c \in IndicatorChoices}
    \cup {PyDict([j \in 1..NumIndicators |->
                     KV(IndicatorKey(j),
                        IF j = i THEN odd ELSE FullIndicator(j))]) :
             i \in 1..NumIndicators, odd \in OddIndicators}

\* Documents that carry all seven indicators, in every order of the keys.
OrderedDocs ==
    {PyDict(<<KV("fear_and_greed", PyDict(<<KV("score", PyNum(19 * Scale + 9))>>))>>
            \o [j \in 1..NumIndicators |->
                   KV(IndicatorKey(p[j]), FullIndicator(p[j]))]) :
        p \in Permutations(1..NumIndicators)}

MappingDocs == MainDocs \cup IndicatorDocs \cup OrderedDocs

\* JSON documents that are no object at the top level.
OtherDocs ==
    {PyNone, PyNum(5), PyStr("ok"), PyList(<<>>), PyList(<<PyDict(<<>>)>>)}

Statuses == {200, 204, 304, 404, 500, 503}

Body(val) == [valid |-> TRUE, json |-> val]

NotJson == [valid |-> FALSE, json |-> Unbound]

Response(status, body) == [kind |-> "response", status |-> status, body |-> body]

NoResponse(kind) == [kind |-> kind, status |-> 0, body |-> NotJson]

Upstreams ==
    {NoResponse("timeout"), NoResponse("refused")}
    \cup {Response(st, b) : st \in Statuses,
                            b \in {NotJson, Body(PyDict(<<>>)), Body(PyNone)}}
    \cup {Response(200, Body(d)) : d \in MappingDocs \cup OtherDocs}

---------------------------------------------------------------------------
(* State *)

VARIABLES
    upstream,    \* what the endpoint answers to a GET
    compactOk,   \* the interpreter parses a UTC offset written +0000
    calls,       \* calls made so far
    totalGets,   \* HTTP GETs issued so far
    built,       \* outcome of the last CNNFearAndGreedIndex() call
    fetchRes,    \* outcome of the last direct _get_fear_greed_data() call
    now,         \* the wall clock of the REST server, in seconds
    cache,       \* api_server._cache: the snapshot and when it was built
    answers,     \* the trading signal each front-end answered, if asked
    replies,     \* what each other handler displayed or returned, if run
    callers,     \* the independent callers of the constructor, step by step
    heap,        \* the snapshot objects allocated so far, by identity
    tools,       \* the MCP server as its client sees it: calls and last answer
    requests,    \* the REST requests in flight, each at its line of get_fgi
    loop,        \* the request the REST server's event loop is running, or 0
    watch        \* the `fgi watch` process: its line, its clock, its output

vars ==
    <<upstream, compactOk, calls, totalGets, built, fetchRes, now, cache,
      answers, replies, callers, heap, tools, requests, loop, watch>>

NotFetched ==
    [exc |-> NoExc, doc |-> Unbound, gets |-> 0, status |-> 0, parsed |-> FALSE]

NotBuilt ==
    [obj |-> Unbound, exc |-> NoExc, site |-> "", self |-> Unbound,
     gets |-> 0, fetches |-> 0, fetched |-> NotFetched]

\* api_server._cache at import time.
EmptyCache == [data |-> PyNone, timestamp |-> PyNone]

\* A front-end that was not asked for the trading signal.
NotAsked ==
    [exc |-> NoExc, signal |-> "", recommendation |-> "", score |-> Unbound]

FrontEnds == {"api", "cli", "mcp"}

\* The other handlers of the front-ends and the plot method of the core.
Handlers ==
    {"web_main", "cli_dashboard", "plot_all_indicators", "plot_all_charts",
     "mcp_compare", "api_indicator", "core", "api_route", "cli_history",
     "mcp_history", "get_fgi", "cache_build", "create_gauge"}

\* A handler that did not run.
NoReply == [exc |-> NoExc, ran |-> FALSE]

\* Independent callers of the constructor (threads or processes).
NumCallers == 2

Callers == 1..NumCallers

\* A caller that has not called yet.
IdleCaller == [pc |-> "idle", self |-> 0, fetched |-> NotFetched, exc |-> NoExc]

\* An MCP server no client has called yet.
NoToolCalls ==
    [listed |-> Unbound, names |-> <<>>, asked |-> Unbound, last |-> NoReply]

\* REST requests one server process has in flight at a time.
NumRequests == 2

Requests == 1..NumRequests

\* A request that has not arrived yet.
NoRequest == [pc |-> "idle"]

\* `fgi watch` not started.
NotWatching ==
    [pc |-> "off", loads |-> 0, renders |-> 0, sleeps |-> 0, rows |-> 0,
     lastLoad |-> -1, gap |-> 0, out |-> "", exc |-> NoExc, failed |-> "",
     loadsAtEnd |-> 0]

\* The state of a process that made no call yet.
Idle ==
    /\ calls = 0
    /\ totalGets = 0
    /\ built = NotBuilt
    /\ fetchRes = NotFetched
    /\ now = 0
    /\ cache = EmptyCache
    /\ answers = [f \in FrontEnds |-> NotAsked]
    /\ replies = [h \in Handlers |-> NoReply]
    /\ callers = [c \in Callers |-> IdleCaller]
    /\ heap = <<>>
    /\ tools = NoToolCalls
    /\ requests = [r \in Requests |-> NoRequest]
    /\ loop = 0
    /\ watch = NotWatching

Init ==
    /\ upstream \in Upstreams
    /\ compactOk \in BOOLEAN
    /\ Idle

\* A caller runs fgi = CNNFearAndGreedIndex().
NewIndex ==
    /\ calls < MaxCalls
    /\ built' = Construct(upstream, compactOk)
    /\ calls' = calls + 1
    /\ totalGets' = totalGets + built'.gets
    /\ UNCHANGED <<upstream, compactOk, fetchRes, now, cache, answers,
                   replies, callers, heap,
                   tools, requests, loop, watch>>

\* A caller runs scrape_cnn._get_fear_greed_data() on its own.
Fetch ==
    /\ calls < MaxCalls
    /\ fetchRes' = GetFearGreedData(upstream)
    /\ calls' = calls + 1
    /\ totalGets' = totalGets + fetchRes'.gets
    /\ UNCHANGED <<upstream, compactOk, built, now, cache, answers,
                   replies, callers, heap,
                   tools, requests, loop, watch>>

Next == NewIndex \/ Fetch

Spec == Init /\ [][Next]_vars

---------------------------------------------------------------------------
(* Properties of the build *)

\* The seven canonical names, in the fixed canonical order.
CanonicalNames ==
    << "Junk Bond Demand", "Market Volatility (VIX)", "Put and Call Options",
       "Market Momentum (S&P 500)", "Stock Price Strength",
       "Stock Price Breadth", "Safe Haven Demand" >>

\* The raw key of each canonical position.
CanonicalKeys ==
    << "junk_bond_demand", "market_volatility_vix", "put_call_options",
       "market_momentum_sp500", "stock_price_strength", "stock_price_breadth",
       "safe_haven_demand" >>

\* The last constructor call ran, and returned a snapshot.
Constructed == built.fetches > 0

Returned == Constructed /\ built.exc = NoExc

\* The document the last constructor call fetched.
RawDoc == built.fetched.doc

IsPlaceholder(ind) ==
    /\ ind.t = "indicator"
    /\ ind.score = PyNum(0)
    /\ ind.rating = PyStr("N/A")
    /\ ind.timestamp = PyNone
    /\ ind.historical_data = PyList(<<>>)

\* C1: every snapshot built from a mapping holds exactly 7 indicators with the
\* 7 pairwise distinct canonical names, and an indicator whose key is missing
\* from the raw document is a placeholder (score 0.0, rating "N/A", no
\* timestamp, empty series), never an absent slot.
C1_SevenIndicators ==
    Returned =>
        LET inds == all_indicators(built.obj)
        IN /\ IsDict(RawDoc)
           /\ Len(inds) = 7
           /\ \A i \in 1..Len(inds) : inds[i].t = "indicator"
           /\ {inds[i].name : i \in 1..Len(inds)} =
                  {CanonicalNames[i] : i \in 1..7}
           /\ \A i, j \in 1..Len(inds) : i # j => inds[i].name # inds[j].name
           /\ \A i \in 1..7 :
                  ~HasKey(RawDoc, CanonicalKeys[i]) => IsPlaceholder(inds[i])

\* C1 witness: a snapshot built from a document that lacks some indicator
\* keys and carries others.
C1_Witness ==
    /\ Returned
    /\ \E i, j \in 1..7 : /\ ~HasKey(RawDoc, CanonicalKeys[i])
                          /\ HasKey(RawDoc, CanonicalKeys[j])
                          /\ ~IsPlaceholder(all_indicators(built.obj)[j])

\* What position i must hold, read off the raw document: the fields of the
\* sub-object stored under the position's own key.
HoldsOwnData(ind, sub) ==
    IF IsDict(sub) /\ Truthy(sub)
    THEN /\ HasKey(sub, "score") => ind.score = DictGet(sub, "score", PyNone)
         /\ HasKey(sub, "rating") => ind.rating = DictGet(sub, "rating", PyNone)
         /\ HasKey(sub, "data") =>
                ind.historical_data = DictGet(sub, "data", PyNone)
    ELSE IsPlaceholder(ind)

\* C2: whatever the order of the keys in the raw document, all_indicators
\* lists the indicators in the fixed canonical order and each position holds
\* the data of its own raw key.
C2_CanonicalOrder ==
    Returned =>
        LET inds == all_indicators(built.obj)
        IN \A i \in 1..7 :
              /\ inds[i].name = CanonicalNames[i]
              /\ HoldsOwnData(inds[i], DictGet(RawDoc, CanonicalKeys[i], PyNone))

\* C2 witness: a snapshot built from a document that carries the seven
\* indicators with safe_haven_demand first and junk_bond_demand last.
C2_Witness ==
    /\ Returned
    /\ Len(RawDoc.m) = 8
    /\ RawDoc.m[2].k = "safe_haven_demand"
    /\ RawDoc.m[8].k = "junk_bond_demand"
    /\ all_indicators(built.obj)[1].score = PyNum(10 * Scale + 1)

\* The composite fields with a numeric default, and the value a raw document
\* gives for a composite field (Unbound: the field, or the whole
\* "fear_and_greed" sub-object, is missing).
NumericFields ==
    {"score", "previous_close", "previous_1_week", "previous_1_month",
     "previous_1_year"}

RawField(doc, field) ==
    IF ~HasKey(doc, "fear_and_greed") THEN Unbound
    ELSE LET fg == DictGet(doc, "fear_and_greed", Unbound)
         IN IF IsDict(fg) THEN DictGet(fg, field, Unbound) ELSE fg

\* The raw keys whose values the build reads: a raise is blamed on one.
RawSitePresent(doc, site) ==
    CASE site = "fear_and_greed.timestamp" ->
             RawField(doc, "timestamp") # Unbound
      [] OTHER -> HasKey(doc, site)

C3_WitnessField ==
    /\ Returned
    /\ HasKey(RawDoc, "fear_and_greed")
    /\ RawField(RawDoc, "score") = Unbound
    /\ RawField(RawDoc, "rating") = PyStr("greed")
    /\ built.obj.score = PyNum(0)

\* C4: in every snapshot the build returns, the composite score, the four
\* previous-period scores and every indicator score are numbers, and the
\* composite rating and every indicator rating are strings.
C4_NoNullScoreOrRating ==
    Returned =>
        /\ \A f \in NumericFields : IsNumber(built.obj[f])
        /\ IsString(built.obj.rating)
        /\ \A i \in 1..7 :
               /\ IsNumber(all_indicators(built.obj)[i].score)
               /\ IsString(all_indicators(built.obj)[i].rating)

\* C5: the build fails exactly when the raw document is not a mapping: every
\* mapping, whatever its sub-fields, yields a snapshot and raises nothing.
C5_FailsOnlyOnNonMapping ==
    (Constructed /\ built.fetched.exc = NoExc) =>
        (built.exc # NoExc <=> ~IsDict(RawDoc))

\* A snapshot is complete: every stage of the build ran on it.
Complete(obj) ==
    /\ obj.t = "index"
    /\ \A i \in 1..7 : all_indicators(obj)[i].t = "indicator"
    /\ \A f \in NumericFields \cup {"rating", "timestamp", "historical_data"} :
           obj[f] # Unbound

\* C6: a constructor call either returns a complete snapshot or raises and
\* hands the caller no object; a fetch that times out yields no snapshot.
C6_AllOrNothing ==
    Constructed =>
        /\ \/ built.exc = NoExc /\ Complete(built.obj)
           \/ built.exc # NoExc /\ built.obj = Unbound
        /\ upstream.kind = "timeout" =>
               built.exc = "Timeout" /\ built.obj = Unbound

\* C6 witness: the build raised half way, with some indicators made and others
\* not, and the caller got nothing.
C6_Witness ==
    /\ Constructed
    /\ built.exc # NoExc
    /\ built.obj = Unbound
    /\ built.self.junk_bond_demand.t = "indicator"
    /\ built.self.safe_haven_demand = PyNone

\* C6 witness, second case: the fetch timed out.
C6_WitnessTimeout ==
    Constructed /\ upstream.kind = "timeout" /\ built.obj = Unbound

---------------------------------------------------------------------------
(* Properties of the fetch *)

\* The last direct fetch call ran, and the endpoint answered it.
Fetched == fetchRes.gets > 0

Answered == upstream.kind = "response"

\* The fetch failed on the status: HTTPError with the status code, no
\* document, the body left undecoded.
FailsOnStatus(res) ==
    /\ res.exc = "HTTPError"
    /\ res.status = upstream.status
    /\ res.doc = Unbound
    /\ ~res.parsed

\* C7 as stated: for every final response whose status is outside 200-299
\* the fetch fails with a transport error carrying the status code, returns
\* no document and never parses the body.
C7_Non2xxFails ==
    (Fetched /\ Answered /\ ~(upstream.status \in 200..299)) =>
        FailsOnStatus(fetchRes)

\* C7 amended: for every final response whose status is in 400-599 the fetch
\* fails with an HTTPError carrying the status code, returns no document and
\* never parses the body; a response with any other status is not rejected
\* on its status, and its body is parsed.
C7_ErrorStatusFails ==
    (Fetched /\ Answered) =>
        IF upstream.status \in 400..599
        THEN FailsOnStatus(fetchRes)
        ELSE fetchRes.parsed /\ fetchRes.exc # "HTTPError"

\* C7 witness: a fetch answered with 404 and a body that is valid JSON.
C7_Witness ==
    /\ Fetched
    /\ upstream = Response(404, Body(PyDict(<<>>)))
    /\ fetchRes.exc = "HTTPError"
    /\ fetchRes.status = 404

\* C8: when the HTTP call succeeds and the body is not valid JSON, the fetch
\* fails with an error that is no transport error, and neither a document
\* nor a snapshot is returned.
C8_MalformedBody ==
    (Answered /\ upstream.status \in 200..299 /\ ~upstream.body.valid) =>
        /\ Fetched =>
               /\ fetchRes.exc = "JSONDecodeError"
               /\ fetchRes.exc \notin TransportExcs
               /\ fetchRes.doc = Unbound
        /\ Constructed =>
               /\ built.exc = "JSONDecodeError"
               /\ built.exc \notin TransportExcs
               /\ built.obj = Unbound

\* C8 witness: a fetch and a constructor call, both answered 200 with a body
\* that is not JSON.
C8_Witness ==
    /\ Fetched
    /\ Constructed
    /\ upstream = Response(200, NotJson)
    /\ fetchRes.exc = "JSONDecodeError"

---------------------------------------------------------------------------
(* The front-ends: the trading signal *)

\* Lines 55-56 of get_fgi: both cache fields are assigned once the
\* constructor has returned `made`.
Refreshed(c, clock, made) ==
    IF made.exc # NoExc
    THEN [cache |-> c, fgi |-> Unbound, exc |-> made.exc, gets |-> made.gets,
          calls |-> 1]
    ELSE [cache |-> [data |-> made.obj, timestamp |-> PyDatetime(clock)],
          fgi |-> made.obj, exc |-> NoExc, gets |-> made.gets, calls |-> 1]

\* api_server.get_fgi(): the cached snapshot, rebuilt when there is none or
\* when it is more than 300 seconds old. A constructor that raises leaves
\* the cache as it was.
GetFgiInclusive(c, clock, up, tzOk) ==
    IF \/ c.data = PyNone
       \/ c.timestamp = PyNone
       \/ clock - c.timestamp.n >= 300
    THEN Refreshed(c, clock, Construct(up, tzOk))
    ELSE [cache |-> c, fgi |-> c.data, exc |-> NoExc, gets |-> 0, calls |-> 0]

GetFgi(c, clock, up, tzOk) ==
    IF \/ c.data = PyNone
       \/ c.timestamp = PyNone
       \/ clock - c.timestamp.n > 300
    THEN Refreshed(c, clock, Construct(up, tzOk))
    ELSE [cache |-> c, fgi |-> c.data, exc |-> NoExc, gets |-> 0, calls |-> 0]

Answer(signal, recommendation, score) ==
    [exc |-> NoExc, signal |-> signal, recommendation |-> recommendation,
     score |-> score]

Failure(exc) ==
    [exc |-> exc, signal |-> "", recommendation |-> "", score |-> Unbound]

\* api_server.get_trading_signal, lines 93-109: the if/elif chain on
\* fgi.score. Comparing None or a string with a number raises TypeError.
ApiSignalInclusive(fgi) ==
    IF ~IsNumber(fgi.score) THEN Failure("TypeError") ELSE
    LET score == fgi.score.n IN
    IF score <= 20 * Scale
    THEN Answer("STRONG_BUY", "Extreme fear - potential buying opportunity",
                fgi.score)
    ELSE IF score <= 40 * Scale
    THEN Answer("BUY", "Fear in market - consider accumulating", fgi.score)
    ELSE IF score <= 60 * Scale
    THEN Answer("HOLD", "Neutral sentiment - maintain positions", fgi.score)
    ELSE IF score <= 80 * Scale
    THEN Answer("SELL", "Greed in market - consider taking profits", fgi.score)
    ELSE Answer("STRONG_SELL", "Extreme greed - potential market top",
                fgi.score)

ApiSignal(fgi) ==
    IF ~IsNumber(fgi.score) THEN Failure("TypeError") ELSE
    LET score == fgi.score.n IN
    IF score < 20 * Scale
    THEN Answer("STRONG_BUY", "Extreme fear - potential buying opportunity",
                fgi.score)
    ELSE IF score < 40 * Scale
    THEN Answer("BUY", "Fear in market - consider accumulating", fgi.score)
    ELSE IF score < 60 * Scale
    THEN Answer("HOLD", "Neutral sentiment - maintain positions", fgi.score)
    ELSE IF score < 80 * Scale
    THEN Answer("SELL", "Greed in market - consider taking profits", fgi.score)
    ELSE Answer("STRONG_SELL", "Extreme greed - potential market top",
                fgi.score)

\* fgi_cli.signal, lines 178-202.
CliSignal(fgi) ==
    IF ~IsNumber(fgi.score) THEN Failure("TypeError") ELSE
    LET score == fgi.score.n IN
    IF score < 20 * Scale
    THEN Answer("STRONG BUY", "Extreme fear - potential buying opportunity",
                fgi.score)
    ELSE IF score < 40 * Scale
    THEN Answer("BUY", "Fear in market - consider accumulating", fgi.score)
    ELSE IF score < 60 * Scale
    THEN Answer("HOLD", "Neutral sentiment - maintain positions", fgi.score)
    ELSE IF score < 80 * Scale
    THEN Answer("SELL", "Greed in market - consider taking profits", fgi.score)
    ELSE Answer("STRONG SELL", "Extreme greed - potential market top",
                fgi.score)

\* fgi_mcp_server.call_tool("get_trading_signal"), lines 138-152.
McpSignal(fgi) ==
    IF ~IsNumber(fgi.score) THEN Failure("TypeError") ELSE
    LET score == fgi.score.n IN
    IF score < 20 * Scale
    THEN Answer("STRONG BUY", "Extreme fear in the market. Historically, this represents a potential buying opportunity as markets tend to be oversold.",
                fgi.score)
    ELSE IF score < 40 * Scale
    THEN Answer("BUY", "Fear in the market. Consider accumulating positions as sentiment is pessimistic.",
                fgi.score)
    ELSE IF score < 60 * Scale
    THEN Answer("HOLD", "Neutral sentiment. Market is balanced - maintain current positions.",
                fgi.score)
    ELSE IF score < 80 * Scale
    THEN Answer("SELL", "Greed in the market. Consider taking profits as sentiment is optimistic.",
                fgi.score)
    ELSE Answer("STRONG SELL", "Extreme greed in the market. Historically, this represents a potential market top. Exercise caution.",
                fgi.score)

\* GET /signal: get_fgi(), then the classification.
ApiGetTradingSignal ==
    /\ answers["api"] = NotAsked
    /\ \E got \in {GetFgi(cache, now, upstream, compactOk)} :
          /\ cache' = got.cache
          /\ calls' = calls + got.calls
          /\ totalGets' = totalGets + got.gets
          /\ answers' = [answers EXCEPT !["api"] =
                            IF got.exc # NoExc THEN Failure(got.exc)
                            ELSE ApiSignal(got.fgi)]
    /\ UNCHANGED <<upstream, compactOk, built, fetchRes, now,
                   replies, callers, heap,
                   tools, requests, loop, watch>>

\* `fgi signal`: load_data(), then the classification.
CliSignalCommand ==
    /\ answers["cli"] = NotAsked
    /\ \E made \in {Construct(upstream, compactOk)} :
          /\ calls' = calls + 1
          /\ totalGets' = totalGets + made.gets
          /\ answers' = [answers EXCEPT !["cli"] =
                            IF made.exc # NoExc THEN Failure(made.exc)
                            ELSE CliSignal(made.obj)]
    /\ UNCHANGED <<upstream, compactOk, built, fetchRes, now, cache,
                   replies, callers, heap,
                   tools, requests, loop, watch>>

\* The MCP tool get_trading_signal: get_fgi_data(), then the classification.
McpGetTradingSignal ==
    /\ answers["mcp"] = NotAsked
    /\ \E made \in {Construct(upstream, compactOk)} :
          /\ calls' = calls + 1
          /\ totalGets' = totalGets + made.gets
          /\ answers' = [answers EXCEPT !["mcp"] =
                            IF made.exc # NoExc THEN Failure(made.exc)
                            ELSE McpSignal(made.obj)]
    /\ UNCHANGED <<upstream, compactOk, built, fetchRes, now, cache,
                   replies, callers, heap,
                   tools, requests, loop, watch>>

\* The upstream carries a composite score anywhere in [0, 100].
MaxScore == 100 * Scale

ScoreDoc(score) ==
    PyDict(<<KV("fear_and_greed",
                PyDict(<<KV("score", PyNum(score)),
                         KV("rating", PyStr("neutral"))>>))>>)

SignalInit ==
    /\ upstream \in {Response(200, Body(ScoreDoc(x))) : x \in 0..MaxScore}
    /\ compactOk \in BOOLEAN
    /\ Idle

SignalNext == ApiGetTradingSignal \/ CliSignalCommand \/ McpGetTradingSignal

SpecSignal == SignalInit /\ [][SignalNext]_vars

\* The five bands of the trading signal, lowest first; the CLI and the MCP
\* tool spell the two outer labels with a space.
BandOf(label) ==
    CASE label \in {"STRONG_BUY", "STRONG BUY"} -> 1
      [] label = "BUY" -> 2
      [] label = "HOLD" -> 3
      [] label = "SELL" -> 4
      [] label \in {"STRONG_SELL", "STRONG SELL"} -> 5
      [] OTHER -> 0

\* The band the documented boundaries give a score.
DocumentedBand(score) ==
    CASE score < 20 * Scale -> 1
      [] 20 * Scale <= score /\ score < 40 * Scale -> 2
      [] 40 * Scale <= score /\ score < 60 * Scale -> 3
      [] 60 * Scale <= score /\ score < 80 * Scale -> 4
      [] score >= 80 * Scale -> 5

DocumentedLabels == <<"STRONG_BUY", "BUY", "HOLD", "SELL", "STRONG_SELL">>

Asked(f) == answers[f] # NotAsked

\* The score the upstream document carries.
UpstreamScore == RawField(upstream.body.json, "score").n

\* C10: every score in [0,100] gets exactly one of the five bands, with the
\* boundaries 20, 40, 60, 80 belonging to the upper band; the REST route
\* answers the documented label, and the CLI command and the MCP tool select
\* the same band as the REST route.
C10_SignalBands ==
    /\ \A f \in FrontEnds :
           Asked(f) =>
               /\ answers[f].exc = NoExc
               /\ answers[f].score = PyNum(UpstreamScore)
               /\ BandOf(answers[f].signal) = DocumentedBand(UpstreamScore)
    /\ Asked("api") =>
           answers["api"].signal = DocumentedLabels[DocumentedBand(UpstreamScore)]
    /\ \A f, g \in FrontEnds :
           (Asked(f) /\ Asked(g)) =>
               BandOf(answers[f].signal) = BandOf(answers[g].signal)

\* C10 witness: the three front-ends answered BUY for a score of exactly 20.
C10_Witness ==
    /\ UpstreamScore = 20 * Scale
    /\ \A f \in FrontEnds : Asked(f) /\ answers[f].signal = "BUY"

---------------------------------------------------------------------------
(* Severity bands and displays *)

MapSeq(Op(_), s) == [i \in 1..Len(s) |-> Op(s[i])]

\* The first exception of a run of statements, in program order.
RECURSIVE FirstExc(_)
FirstExc(excs) ==
    IF excs = <<>> THEN NoExc
    ELSE IF Head(excs) # NoExc THEN Head(excs)
    ELSE FirstExc(Tail(excs))

\* Comparing, subtracting or formatting with ".1f" a value that is no number
\* raises TypeError; calling a str method on one that is no string raises
\* AttributeError.
NeedsNumber(v) == IF IsNumber(v) THEN NoExc ELSE "TypeError"

NeedsString(v) == IF IsString(v) THEN NoExc ELSE "AttributeError"

\* app.get_color_for_score, lines 15-26.
app_get_color_for_score(score) ==
    IF score < 25 * Scale THEN "#8B0000"
    ELSE IF score < 45 * Scale THEN "#FF4500"
    ELSE IF score < 55 * Scale THEN "#FFD700"
    ELSE IF score < 75 * Scale THEN "#32CD32"
    ELSE "#006400"

\* fgi_cli.get_color_for_score, lines 16-27.
cli_get_color_for_score(score) ==
    IF score < 25 * Scale THEN "red"
    ELSE IF score < 45 * Scale THEN "orange1"
    ELSE IF score < 55 * Scale THEN "yellow"
    ELSE IF score < 75 * Scale THEN "green"
    ELSE "dark_green"

get_emoji_for_score_inclusive(score) ==
    IF score <= 25 * Scale THEN "U+1F534"
    ELSE IF score <= 45 * Scale THEN "U+1F7E0"
    ELSE IF score <= 55 * Scale THEN "U+1F7E1"
    ELSE IF score <= 75 * Scale THEN "U+1F7E2"
    ELSE "U+1F49A"

\* fgi_cli.get_emoji_for_score, lines 30-41; each emoji is written as its
\* code point.
get_emoji_for_score(score) ==
    IF score < 25 * Scale THEN "U+1F534"
    ELSE IF score < 45 * Scale THEN "U+1F7E0"
    ELSE IF score < 55 * Scale THEN "U+1F7E1"
    ELSE IF score < 75 * Scale THEN "U+1F7E2"
    ELSE "U+1F49A"

\* The colouring loop of plot_all_indicators, lines 274-286.
plot_all_indicators_color(score) ==
    IF score < 25 * Scale THEN "#8B0000"
    ELSE IF score < 45 * Scale THEN "#FF4500"
    ELSE IF score < 55 * Scale THEN "#FFD700"
    ELSE IF score < 75 * Scale THEN "#90EE90"
    ELSE "#006400"

\* The colouring loop of plot_all_charts, lines 328-339.
plot_all_charts_color(score) ==
    IF score < 25 * Scale THEN "#8B0000"
    ELSE IF score < 45 * Scale THEN "#FF4500"
    ELSE IF score < 55 * Scale THEN "#FFD700"
    ELSE IF score < 75 * Scale THEN "#90EE90"
    ELSE "#006400"

\* The scores of the seven indicators, and what reading them for a chart or
\* a table raises.
IndicatorScores(fgi) == MapSeq(LAMBDA ind : ind.score, all_indicators(fgi))

IndicatorRatings(fgi) == MapSeq(LAMBDA ind : ind.rating, all_indicators(fgi))

ScoresExc(scores) == FirstExc(MapSeq(NeedsNumber, scores))

RatingsExc(ratings) == FirstExc(MapSeq(NeedsString, ratings))

\* The tenths a number shows when formatted with ".1f".
Tenths(x) == (20 * (IF x < 0 THEN -x ELSE x) + Scale) \div (2 * Scale)

\* f"{x:+.1f}": the sign always shown.
FormatSigned(x) ==
    [prefix |-> IF x < 0 THEN "-" ELSE "+", tenths |-> Tenths(x)]

\* f"{x:.1f}": the sign shown for a negative number only.
FormatPlain(x) ==
    [prefix |-> IF x < 0 THEN "-" ELSE "", tenths |-> Tenths(x)]

\* The items of a list, in order.
Items(l) == [i \in 1..Len(l.m) |-> l.m[i].v]

\* What d[key] raises: TypeError on a value that is no dict, KeyError on a
\* dict without the key.
SubscriptExc(d, key) ==
    IF ~IsDict(d) THEN "TypeError"
    ELSE IF ~HasKey(d, key) THEN "KeyError"
    ELSE NoExc

\* What reading point[key] as a number raises.
PointNumberExc(d, key) ==
    IF SubscriptExc(d, key) # NoExc THEN SubscriptExc(d, key)
    ELSE NeedsNumber(DictGet(d, key, PyNone))

\* app.create_historical_chart, lines 61-96: the dates of all points, then
\* their values, then a colour for each value.
HistoricalChartExc(data) ==
    IF data.t \notin {"list", "dict"} THEN "TypeError"
    ELSE FirstExc(MapSeq(LAMBDA d : PointNumberExc(d, "x"), Items(data))
                  \o MapSeq(LAMBDA d : SubscriptExc(d, "y"), Items(data))
                  \o MapSeq(LAMBDA d : PointNumberExc(d, "y"), Items(data)))

HistoricalChartColors(data) ==
    MapSeq(LAMBDA d : app_get_color_for_score(DictGet(d, "y", PyNone).n),
           Items(data))

\* A handler that ran and raised.
Raises(exc) == [exc |-> exc, ran |-> TRUE]

\* app.main, line 162: the colour of the rating badge.
WebBadgeByRating(fgi) ==
    CASE fgi.rating.s = "extreme fear" -> "#8B0000"
      [] fgi.rating.s = "fear" -> "#FF4500"
      [] fgi.rating.s = "neutral" -> "#FFD700"
      [] fgi.rating.s = "greed" -> "#32CD32"
      [] OTHER -> "#006400"

WebBadge(fgi) == app_get_color_for_score(fgi.score.n)

\* app.main, lines 133-213, on the snapshot load_data() returned: the gauge,
\* the metrics, the badge, the historical chart when there is a series, the
\* indicator chart and the indicator details.
WebMainReply(fgi) ==
    \* lines 145, 154-159, 171-172, 183, 188-197
    LET exc == FirstExc(
            <<NeedsString(fgi.rating), NeedsNumber(fgi.score),
              NeedsNumber(fgi.previous_close), NeedsNumber(fgi.previous_1_week),
              NeedsNumber(fgi.previous_1_month),
              IF Truthy(fgi.historical_data)
              THEN HistoricalChartExc(fgi.historical_data) ELSE NoExc,
              ScoresExc(IndicatorScores(fgi)),
              RatingsExc(IndicatorRatings(fgi))>>)
    IN IF exc # NoExc THEN Raises(exc) ELSE
       [exc |-> NoExc, ran |-> TRUE,
        score |-> fgi.score.n,
        gauge |-> app_get_color_for_score(fgi.score.n),
        deltas |-> <<[period |-> "previous_close",
                      value |-> fgi.previous_close.n,
                      change |-> fgi.score.n - fgi.previous_close.n,
                      text |-> FormatSigned(fgi.score.n - fgi.previous_close.n)]>>,
        badge |-> WebBadge(fgi),
        history |-> IF Truthy(fgi.historical_data)
                    THEN HistoricalChartColors(fgi.historical_data) ELSE <<>>,
        scores |-> MapSeq(LAMBDA s : s.n, IndicatorScores(fgi)),
        colors |-> MapSeq(LAMBDA s : app_get_color_for_score(s.n),
                          IndicatorScores(fgi))]

\* fgi_cli.dashboard, lines 129-132: one row of the comparison table.
DashboardChange(period, score, value) ==
    [period |-> period, value |-> value, change |-> score - value,
     text |-> IF score - value > 0
              THEN [prefix |-> "+", tenths |-> Tenths(score - value)]
              ELSE FormatPlain(score - value)]

\* fgi_cli.dashboard, lines 93-160: the score panel, the comparison table
\* and the indicators table.
CliDashboardReply(fgi) ==
    \* lines 98, 107, 124-132, 148-157
    LET exc == FirstExc(
            <<NeedsNumber(fgi.score), NeedsString(fgi.rating),
              NeedsNumber(fgi.previous_close), NeedsNumber(fgi.previous_1_week),
              NeedsNumber(fgi.previous_1_month), NeedsNumber(fgi.previous_1_year)>>
            \o [i \in 1..NumIndicators |->
                   FirstExc(<<NeedsNumber(IndicatorScores(fgi)[i]),
                              NeedsString(IndicatorRatings(fgi)[i])>>)])
    IN IF exc # NoExc THEN Raises(exc) ELSE
       [exc |-> NoExc, ran |-> TRUE,
        score |-> fgi.score.n,
        color |-> cli_get_color_for_score(fgi.score.n),
        emoji |-> get_emoji_for_score(fgi.score.n),
        deltas |-> <<DashboardChange("previous_close", fgi.score.n, fgi.previous_close.n),
                     DashboardChange("previous_1_week", fgi.score.n, fgi.previous_1_week.n),
                     DashboardChange("previous_1_month", fgi.score.n, fgi.previous_1_month.n),
                     DashboardChange("previous_1_year", fgi.score.n, fgi.previous_1_year.n)>>,
        scores |-> MapSeq(LAMBDA s : s.n, IndicatorScores(fgi)),
        colors |-> MapSeq(LAMBDA s : cli_get_color_for_score(s.n),
                          IndicatorScores(fgi)),
        emojis |-> MapSeq(LAMBDA s : get_emoji_for_score(s.n),
                          IndicatorScores(fgi))]

\* CNNFearAndGreedIndex.plot_all_indicators, lines 253-301: the bar colours,
\* then the title.
PlotAllIndicatorsReply(fgi) ==
    LET exc == FirstExc(<<ScoresExc(IndicatorScores(fgi)),
                          NeedsNumber(fgi.score), NeedsString(fgi.rating)>>)
    IN IF exc # NoExc THEN Raises(exc) ELSE
       [exc |-> NoExc, ran |-> TRUE,
        scores |-> MapSeq(LAMBDA s : s.n, IndicatorScores(fgi)),
        colors |-> MapSeq(LAMBDA s : plot_all_indicators_color(s.n),
                          IndicatorScores(fgi))]

\* CNNFearAndGreedIndex.plot_fear_greed_index, lines 216-251: nothing is
\* drawn without a series; otherwise the dates, the values, one segment per
\* pair of neighbours, then the title.
PlotFearGreedIndexExc(fgi) ==
    LET data == fgi.historical_data IN
    IF ~Truthy(data) THEN NoExc
    ELSE IF data.t \notin {"list", "dict"} THEN "TypeError"
    ELSE FirstExc(MapSeq(LAMBDA d : PointNumberExc(d, "x"), Items(data))
                  \o MapSeq(LAMBDA d : SubscriptExc(d, "y"), Items(data))
                  \o MapSeq(LAMBDA d : PointNumberExc(d, "y"),
                            SubSeq(Items(data), 1, Len(Items(data)) - 1))
                  \o <<NeedsNumber(fgi.score), NeedsString(fgi.rating)>>)

\* CNNFearAndGreedIndex.plot_all_charts, lines 303-353: the historical chart
\* on top, the bar colours below.
PlotAllChartsReply(fgi) ==
    LET exc == FirstExc(<<PlotFearGreedIndexExc(fgi),
                          ScoresExc(IndicatorScores(fgi))>>)
    IN IF exc # NoExc THEN Raises(exc) ELSE
       [exc |-> NoExc, ran |-> TRUE,
        scores |-> MapSeq(LAMBDA s : s.n, IndicatorScores(fgi)),
        colors |-> MapSeq(LAMBDA s : plot_all_charts_color(s.n),
                          IndicatorScores(fgi))]

\* fgi_mcp_server.call_tool("get_fear_greed_comparison"), lines 127-132: one
\* line of the comparison.
McpChangeReversed(period, score, value) ==
    [period |-> period, value |-> value, change |-> value - score,
     text |-> FormatSigned(value - score)]

McpChange(period, score, value) ==
    [period |-> period, value |-> value, change |-> score - value,
     text |-> FormatSigned(score - value)]

\* fgi_mcp_server.call_tool("get_fear_greed_comparison"), lines 122-133.
McpCompareReply(fgi) ==
    LET exc == FirstExc(
            <<NeedsNumber(fgi.score),
              NeedsNumber(fgi.previous_close), NeedsNumber(fgi.previous_1_week),
              NeedsNumber(fgi.previous_1_month), NeedsNumber(fgi.previous_1_year)>>)
    IN IF exc # NoExc THEN Raises(exc) ELSE
       [exc |-> NoExc, ran |-> TRUE,
        score |-> fgi.score.n,
        deltas |-> <<McpChange("previous_close", fgi.score.n, fgi.previous_close.n),
                     McpChange("previous_1_week", fgi.score.n, fgi.previous_1_week.n),
                     McpChange("previous_1_month", fgi.score.n, fgi.previous_1_month.n),
                     McpChange("previous_1_year", fgi.score.n, fgi.previous_1_year.n)>>]

\* A handler h has built the snapshot `made` of its own and displays it with
\* `reply`, unless the constructor raised.
Handled(h, made, reply) ==
    /\ replies[h] = NoReply
    /\ calls' = calls + 1
    /\ totalGets' = totalGets + made.gets
    /\ replies' = [replies EXCEPT ![h] =
                      IF made.exc # NoExc THEN Raises(made.exc) ELSE reply]
    /\ UNCHANGED <<upstream, compactOk, built, fetchRes, now, cache, answers,
                   callers, heap,
                   tools, requests, loop, watch>>

\* A browser session opens the Streamlit page: load_data() with nothing
\* cached, then main().
WebMain ==
    \E made \in {Construct(upstream, compactOk)} :
        Handled("web_main", made, WebMainReply(made.obj))

\* `fgi dashboard`.
CliDashboard ==
    \E made \in {Construct(upstream, compactOk)} :
        Handled("cli_dashboard", made, CliDashboardReply(made.obj))

\* fgi = CNNFearAndGreedIndex(); fgi.plot_all_indicators().
PlotAllIndicators ==
    \E made \in {Construct(upstream, compactOk)} :
        Handled("plot_all_indicators", made, PlotAllIndicatorsReply(made.obj))

\* fgi = CNNFearAndGreedIndex(); fgi.plot_all_charts().
PlotAllCharts ==
    \E made \in {Construct(upstream, compactOk)} :
        Handled("plot_all_charts", made, PlotAllChartsReply(made.obj))

\* The MCP tool get_fear_greed_comparison.
McpCompare ==
    \E made \in {Construct(upstream, compactOk)} :
        Handled("mcp_compare", made, McpCompareReply(made.obj))

\* Documents for the displays: the composite score and the score of the
\* first indicator anywhere in [0, 100], under any rating string, and the
\* four earlier values below, at and above the score.
DisplayDoc(score, rating, previous) ==
    PyDict(<<KV("fear_and_greed",
                PyDict(<<KV("score", PyNum(score)),
                         KV("rating", PyStr(rating)),
                         KV("previous_close", PyNum(previous[1])),
                         KV("previous_1_week", PyNum(previous[2])),
                         KV("previous_1_month", PyNum(previous[3])),
                         KV("previous_1_year", PyNum(previous[4]))>>)),
             KV("junk_bond_demand",
                PyDict(<<KV("score", PyNum(MaxScore - score)),
                         KV("rating", PyStr(rating))>>))>>)

Ratings == {"extreme fear", "fear", "neutral", "greed", "extreme greed"}

DisplayDocs ==
    {DisplayDoc(x, "neutral", <<50 * Scale, 50 * Scale, 50 * Scale, 50 * Scale>>) :
        x \in 0..MaxScore}
    \cup {DisplayDoc(x, r, <<0, MaxScore, x, x>>) :
             x \in {0, 20 * Scale, 25 * Scale - 1, 25 * Scale, 60 * Scale,
                    72 * Scale + 3, 75 * Scale - 1, 75 * Scale, MaxScore},
             r \in Ratings}
    \cup {DisplayDoc(50 * Scale, "neutral", p) :
             p \in [1..4 -> {50 * Scale - 1, 50 * Scale, 50 * Scale + 1}]}

DisplayInit ==
    /\ upstream \in {Response(200, Body(d)) : d \in DisplayDocs}
    /\ compactOk \in BOOLEAN
    /\ Idle

DisplayNext ==
    \/ WebMain
    \/ CliDashboard
    \/ PlotAllIndicators
    \/ PlotAllCharts
    \/ McpCompare
    \/ ApiGetTradingSignal

SpecDisplay == DisplayInit /\ [][DisplayNext]_vars

\* The severity band the documented boundaries give a score, lowest first:
\* extreme fear, fear, neutral, greed, extreme greed.
DocumentedSeverity(score) ==
    CASE score < 25 * Scale -> 1
      [] 25 * Scale <= score /\ score < 45 * Scale -> 2
      [] 45 * Scale <= score /\ score < 55 * Scale -> 3
      [] 55 * Scale <= score /\ score < 75 * Scale -> 4
      [] score >= 75 * Scale -> 5

\* The band each copy's colour or emoji stands for.
SeverityOf(mark) ==
    CASE mark \in {"#8B0000", "red", "U+1F534"} -> 1
      [] mark \in {"#FF4500", "orange1", "U+1F7E0"} -> 2
      [] mark \in {"#FFD700", "yellow", "U+1F7E1"} -> 3
      [] mark \in {"#32CD32", "#90EE90", "green", "U+1F7E2"} -> 4
      [] mark \in {"#006400", "dark_green", "U+1F49A"} -> 5
      [] OTHER -> 0

Displayed(h) == replies[h].ran /\ replies[h].exc = NoExc

\* The marks handler h gave the scores it displayed: <<score, mark>> pairs.
Marked(h) ==
    LET r == replies[h] IN
    {<<r.scores[i], r.colors[i]>> : i \in 1..Len(r.scores)}
    \cup (IF h = "web_main"
          THEN {<<r.score, r.gauge>>, <<r.score, r.badge>>}
          ELSE IF h = "cli_dashboard"
          THEN {<<r.score, r.color>>, <<r.score, r.emoji>>}
               \cup {<<r.scores[i], r.emojis[i]>> : i \in 1..Len(r.scores)}
          ELSE {})

BandHandlers ==
    {"web_main", "cli_dashboard", "plot_all_indicators", "plot_all_charts"}

\* C11: every copy of the severity banding (the web colour, the CLI colour,
\* the CLI emoji, the bar colours of the plots) gives every score exactly one
\* of five bands with the boundaries 25, 45, 55, 75 belonging to the upper
\* band, so all copies put a score in the same band.
C11_SeverityBands ==
    \A h \in BandHandlers :
        Displayed(h) =>
            /\ \A p \in Marked(h) : SeverityOf(p[2]) = DocumentedSeverity(p[1])
            /\ h \in {"web_main", "cli_dashboard"} =>
                   replies[h].score = UpstreamScore
            /\ replies[h].scores[1] = MaxScore - UpstreamScore

\* C11 witness: all copies ran on a composite score of exactly 25 and an
\* indicator score of exactly 75: fear for the one, extreme greed for the
\* other.
C11_Witness ==
    /\ UpstreamScore = 25 * Scale
    /\ MaxScore - UpstreamScore = 75 * Scale
    /\ \A h \in BandHandlers : Displayed(h)
    /\ replies["web_main"].gauge = "#FF4500"
    /\ replies["cli_dashboard"].color = "orange1"
    /\ replies["cli_dashboard"].emoji = "U+1F7E0"
    /\ replies["cli_dashboard"].emojis[1] = "U+1F49A"
    /\ replies["plot_all_indicators"].colors[1] = "#006400"
    /\ replies["plot_all_charts"].colors[1] = "#006400"

\* The rating string the upstream document carries.
UpstreamRating == RawField(upstream.body.json, "rating").s

\* C12: the severity band and the trading signal are each computed from the
\* built composite score alone, whatever rating string the upstream sent: a
\* score s with 60 <= s < 75 is shown in the greed band and answered SELL.
C12_BandAndSignalFromScore ==
    /\ Displayed("web_main") =>
           /\ SeverityOf(replies["web_main"].badge) =
                  DocumentedSeverity(UpstreamScore)
           /\ SeverityOf(replies["web_main"].gauge) =
                  DocumentedSeverity(UpstreamScore)
    /\ Asked("api") =>
           /\ answers["api"].exc = NoExc
           /\ answers["api"].signal =
                  DocumentedLabels[DocumentedBand(UpstreamScore)]
    /\ (60 * Scale <= UpstreamScore /\ UpstreamScore < 75 * Scale) =>
           /\ Displayed("web_main") =>
                  SeverityOf(replies["web_main"].badge) = 4
           /\ Asked("api") => answers["api"].signal = "SELL"

\* C12 witness: a score of 72.3 sent with the rating "extreme fear" is shown
\* in the greed colour and answered SELL.
C12_Witness ==
    /\ UpstreamScore = 72 * Scale + 3
    /\ UpstreamRating = "extreme fear"
    /\ Displayed("web_main")
    /\ replies["web_main"].badge = "#32CD32"
    /\ Asked("api")
    /\ answers["api"].signal = "SELL"

---------------------------------------------------------------------------
(* The historical series *)

Reversed(s) == [i \in 1..Len(s) |-> s[Len(s) + 1 - i]]

get_historical_data_newest_first(self) ==
    IF self.historical_data.t = "list"
    THEN [self.historical_data EXCEPT !.m = Reversed(@)]
    ELSE self.historical_data

\* CNNFearAndGreedIndex.get_historical_data, lines 199-201.
get_historical_data(self) == self.historical_data

\* The series the raw document supplies under
\* fear_and_greed_historical.data, Unbound when it supplies none.
RawSeries(doc) ==
    LET h == DictGet(doc, "fear_and_greed_historical", Unbound)
    IN IF h # Unbound /\ IsDict(h) /\ DictGet(h, "data", Unbound).t = "list"
       THEN DictGet(h, "data", Unbound)
       ELSE Unbound

\* C13: for every series the raw document supplies under
\* fear_and_greed_historical.data, get_historical_data() returns the same
\* points in the same order, each with the same x, y and rating.
C13_HistoricalRoundTrip ==
    (Returned /\ IsDict(RawDoc) /\ RawSeries(RawDoc) # Unbound) =>
        LET sent == Items(RawSeries(RawDoc))
            got == get_historical_data(built.obj)
        IN /\ got.t = "list"
           /\ Len(Items(got)) = Len(sent)
           /\ \A i \in 1..Len(sent) :
                  \A key \in {"x", "y", "rating"} :
                      DictGet(Items(got)[i], key, Unbound) =
                          DictGet(sent[i], key, Unbound)

\* C13 witness: a snapshot built from a series of three points that are not
\* in chronological order.
C13_Witness ==
    /\ Returned
    /\ IsDict(RawDoc)
    /\ RawSeries(RawDoc) # Unbound
    /\ Len(Items(RawSeries(RawDoc))) = 3
    /\ LET got == Items(get_historical_data(built.obj))
       IN /\ Len(got) = 3
          /\ DictGet(got[1], "x", Unbound) = PyNum(172800000)
          /\ DictGet(got[2], "x", Unbound) = PyNum(43200000)
          /\ DictGet(got[3], "x", Unbound) = PyNum(86400000)
          /\ DictGet(got[1], "rating", Unbound) = PyStr("greed")

---------------------------------------------------------------------------
(* GET /indicator/{name} *)

\* A Python str as the sequence of its characters, for the operations that
\* look inside one.
NameChars(name) ==
    CASE name = "Junk Bond Demand" ->
             <<"J", "u", "n", "k", " ", "B", "o", "n", "d", " ", "D", "e", "m", "a", "n", "d">>
      [] name = "Market Volatility (VIX)" ->
             <<"M", "a", "r", "k", "e", "t", " ", "V", "o", "l", "a", "t", "i", "l", "i", "t", "y", " ", "(", "V", "I", "X", ")">>
      [] name = "Put and Call Options" ->
             <<"P", "u", "t", " ", "a", "n", "d", " ", "C", "a", "l", "l", " ", "O", "p", "t", "i", "o", "n", "s">>
      [] name = "Market Momentum (S&P 500)" ->
             <<"M", "a", "r", "k", "e", "t", " ", "M", "o", "m", "e", "n", "t", "u", "m", " ", "(", "S", "&", "P", " ", "5", "0", "0", ")">>
      [] name = "Stock Price Strength" ->
             <<"S", "t", "o", "c", "k", " ", "P", "r", "i", "c", "e", " ", "S", "t", "r", "e", "n", "g", "t", "h">>
      [] name = "Stock Price Breadth" ->
             <<"S", "t", "o", "c", "k", " ", "P", "r", "i", "c", "e", " ", "B", "r", "e", "a", "d", "t", "h">>
      [] name = "Safe Haven Demand" ->
             <<"S", "a", "f", "e", " ", "H", "a", "v", "e", "n", " ", "D", "e", "m", "a", "n", "d">>

UpperLetters ==
    <<"A", "B", "C", "D", "E", "F", "G", "H", "I", "J", "K", "L", "M">>
    \o <<"N", "O", "P", "Q", "R", "S", "T", "U", "V", "W", "X", "Y", "Z">>

LowerLetters ==
    <<"a", "b", "c", "d", "e", "f", "g", "h", "i", "j", "k", "l", "m">>
    \o <<"n", "o", "p", "q", "r", "s", "t", "u", "v", "w", "x", "y", "z">>

\* A str.lower() that leaves every character as it is.
SameChar(c) == c

LowerChar(c) ==
    IF \E i \in 1..26 : UpperLetters[i] = c
    THEN LowerLetters[CHOOSE i \in 1..26 : UpperLetters[i] = c]
    ELSE c

\* str.lower().
Lower(s) == [i \in 1..Len(s) |-> LowerChar(s[i])]

\* str.replace(old, new) for a single character old.
Replace(s, old, new) == [i \in 1..Len(s) |-> IF s[i] = old THEN new ELSE s[i]]

\* The operator `needle in hay` on two strings.
Contains(hay, needle) ==
    \E i \in 0..(Len(hay) - Len(needle)) :
        SubSeq(hay, i + 1, i + Len(needle)) = needle

name_lower_underscore_only(name) == Replace(Lower(name), "_", " ")

\* api_server.get_indicator, line 115.
name_lower(name) == Replace(Replace(Lower(name), "_", " "), "-", " ")

\* api_server.get_indicator, lines 117-126: the loop over fgi.all_indicators
\* from position i on, then the not-found answer.
RECURSIVE FindIndicator(_, _, _)
FindIndicator(fgi, name, i) ==
    IF i > Len(all_indicators(fgi))
    THEN [exc |-> NoExc, ran |-> TRUE, query |-> name, found |-> FALSE,
          error |-> name]
    ELSE \* one iteration on all_indicators(fgi)[i]
         IF Contains(Lower(NameChars(all_indicators(fgi)[i].name)),
                     name_lower(name))
         THEN [exc |-> NoExc, ran |-> TRUE, query |-> name, found |-> TRUE,
               name |-> all_indicators(fgi)[i].name,
               score |-> all_indicators(fgi)[i].score,
               rating |-> all_indicators(fgi)[i].rating,
               timestamp |-> all_indicators(fgi)[i].timestamp]
         ELSE FindIndicator(fgi, name, i + 1)

\* api_server.get_indicator, lines 111-126, after get_fgi().
get_indicator(fgi, name) == FindIndicator(fgi, name, 1)

\* The upper-case form of a character and of a string, as a client may type
\* a name.
UpperChar(c) ==
    IF \E i \in 1..26 : LowerLetters[i] = c
    THEN UpperLetters[CHOOSE i \in 1..26 : LowerLetters[i] = c]
    ELSE c

Upper(s) == [i \in 1..Len(s) |-> UpperChar(s[i])]

\* A string with its letters in upper and lower case by turns.
Alternating(s) ==
    [i \in 1..Len(s) |-> IF i % 2 = 0 THEN UpperChar(s[i]) ELSE LowerChar(s[i])]

\* A canonical name as it is, in lower case, in upper case and in mixed case.
CaseVariants(name) ==
    {NameChars(name), Lower(NameChars(name)), Upper(NameChars(name)),
     Alternating(NameChars(name))}

\* The seven canonical names of _INDICATOR_MAP, each in these letter cases.
CanonicalQueries ==
    UNION {CaseVariants(CanonicalNames[j]) : j \in 1..NumIndicators}

\* The names asked for: names a client would type, and every string of up
\* to MaxQueryLen characters over a small alphabet.
MaxQueryLen == 2

QueryAlphabet == {"V", "x", "_", "-", " ", "&"}

Queries ==
    {<<"v", "i", "x">>,
     <<"V", "I", "X">>,
     <<"n", "o", "n", "e", "x", "i", "s", "t", "e", "n", "t", "_", "x", "y", "z">>,
     <<"j", "u", "n", "k", "_", "b", "o", "n", "d">>,
     <<"J", "u", "n", "k", "-", "B", "o", "n", "d", "-", "D", "e", "m", "a", "n", "d">>,
     <<"S", "t", "o", "c", "k", "_", "P", "r", "i", "c", "e">>,
     <<"s", "t", "o", "c", "k", "-", "p", "r", "i", "c", "e", "-", "b", "r", "e", "a", "d", "t", "h">>,
     <<"d", "e", "m", "a", "n", "d">>,
     <<"s", "a", "f", "e", "-", "h", "a", "v", "e", "n">>,
     <<"S", "&", "P">>,
     <<"p", "u", "t", "_", "a", "n", "d", "_", "c", "a", "l", "l">>,
     <<"m", "a", "r", "k", "e", "t">>,
     <<"j", "u", "n", "k", " ", " ", "b", "o", "n", "d">>,
     <<"(", "v", "i", "x", ")">>,
     <<"s", "&", "p", "_", "5", "0", "0">>,
     <<"p", "r", "i", "c", "e", " ", "b", "r", "e", "a", "d", "t", "h">>,
     <<"f", "e", "a", "r">>}
    \cup SeqsUpTo(QueryAlphabet, MaxQueryLen)
    \cup CanonicalQueries

\* GET /indicator/{name}.
ApiGetIndicator ==
    /\ replies["api_indicator"] = NoReply
    /\ \E name \in Queries, got \in {GetFgi(cache, now, upstream, compactOk)} :
          /\ cache' = got.cache
          /\ calls' = calls + got.calls
          /\ totalGets' = totalGets + got.gets
          /\ replies' = [replies EXCEPT !["api_indicator"] =
                            IF got.exc # NoExc THEN Raises(got.exc)
                            ELSE get_indicator(got.fgi, name)]
    /\ UNCHANGED <<upstream, compactOk, built, fetchRes, now, answers,
                   callers, heap,
                   tools, requests, loop, watch>>

\* A document with all seven indicators, one with none, and no answer.
LookupUpstreams ==
    {Response(200, Body(PyDict([j \in 1..NumIndicators |->
                                   KV(IndicatorKey(j), FullIndicator(j))]))),
     Response(200, Body(PyDict(<<>>))),
     NoResponse("timeout")}

LookupInit ==
    /\ upstream \in LookupUpstreams
    /\ compactOk \in BOOLEAN
    /\ Idle

LookupNext == ApiGetIndicator

SpecLookup == LookupInit /\ [][LookupNext]_vars

\* The name a query stands for: each letter in lower case, each "_" and "-"
\* a space.
Normalised(query) ==
    [i \in 1..Len(query) |->
        IF query[i] \in {"_", "-"} THEN " " ELSE LowerChar(query[i])]

\* The canonical positions whose lower-cased name contains the query.
Matches(query) ==
    {i \in 1..7 : Contains(Lower(NameChars(CanonicalNames[i])),
                           Normalised(query))}

Looked == replies["api_indicator"].ran

\* C14: the lookup lower-cases the name asked for, reads "_" and "-" as a
\* space, and answers the first indicator in the fixed order whose
\* lower-cased canonical name contains the result; when none does it
\* answers not-found, and it raises nothing.
C14_IndicatorLookup ==
    (Looked /\ cache.data # PyNone) =>
        LET r == replies["api_indicator"]
            m == Matches(r.query)
        IN /\ r.exc = NoExc
           /\ r.found = (m # {})
           /\ r.found =>
                  LET first == CHOOSE i \in m : \A j \in m : i <= j
                      ind == all_indicators(cache.data)[first]
                  IN /\ r.name = CanonicalNames[first]
                     /\ r.score = ind.score
                     /\ r.rating = ind.rating
                     /\ r.timestamp = ind.timestamp
           /\ ~r.found => r.error = r.query
           /\ r.query = <<"v", "i", "x">> =>
                  r.found /\ r.name = "Market Volatility (VIX)"
           /\ r.query = <<"n", "o", "n", "e", "x", "i", "s", "t", "e", "n", "t", "_", "x", "y", "z">> => ~r.found

\* C14 witness: "Stock_Price" is answered with Stock Price Strength, the
\* first of the two indicators whose name contains "stock price".
C14_Witness ==
    /\ Looked
    /\ replies["api_indicator"].exc = NoExc
    /\ replies["api_indicator"].query = <<"S", "t", "o", "c", "k", "_", "P", "r", "i", "c", "e">>
    /\ Cardinality(Matches(replies["api_indicator"].query)) = 2
    /\ replies["api_indicator"].found
    /\ replies["api_indicator"].name = "Stock Price Strength"
    /\ replies["api_indicator"].score = PyNum(50 * Scale + 5)

---------------------------------------------------------------------------
(* Period deltas *)

ComparisonPoints ==
    <<"previous_close", "previous_1_week", "previous_1_month",
      "previous_1_year">>

DeltaHandlers == {"cli_dashboard", "mcp_compare", "web_main"}

\* The value the upstream document carries for a comparison point.
UpstreamPrevious(period) == RawField(upstream.body.json, period).n

\* C15: every period delta displayed is the score minus the earlier value,
\* never the reverse, with a "+" prefix when the score is above the earlier
\* value and a "-" prefix when it is below; the CLI dashboard and the MCP
\* comparison show it for the four comparison points and the web metric for
\* the previous close.
C15_PeriodDelta ==
    \A h \in DeltaHandlers :
        Displayed(h) =>
            LET deltas == replies[h].deltas IN
            /\ \A i \in 1..Len(deltas) :
                   LET prev == UpstreamPrevious(deltas[i].period) IN
                   /\ deltas[i].period = ComparisonPoints[i]
                   /\ deltas[i].value = prev
                   /\ deltas[i].change = UpstreamScore - prev
                   /\ UpstreamScore > prev => deltas[i].text.prefix = "+"
                   /\ UpstreamScore < prev => deltas[i].text.prefix = "-"
                   /\ deltas[i].text.tenths =
                          Tenths(IF UpstreamScore > prev
                                 THEN UpstreamScore - prev
                                 ELSE prev - UpstreamScore)
            /\ Len(deltas) = IF h = "web_main" THEN 1 ELSE 4

\* C15 witness: a score of 50.0 above the previous close (49.9) and below
\* the value of a week ago (50.1), displayed by the three front-ends.
C15_Witness ==
    /\ UpstreamScore = 50 * Scale
    /\ UpstreamPrevious("previous_close") = 50 * Scale - 1
    /\ UpstreamPrevious("previous_1_week") = 50 * Scale + 1
    /\ \A h \in DeltaHandlers : Displayed(h)
    /\ replies["web_main"].deltas[1].text.prefix = "+"
    /\ replies["cli_dashboard"].deltas[1].text.prefix = "+"
    /\ replies["cli_dashboard"].deltas[2].text.prefix = "-"
    /\ replies["mcp_compare"].deltas[1].text.prefix = "+"
    /\ replies["mcp_compare"].deltas[2].text.prefix = "-"
    /\ replies["mcp_compare"].deltas[2].change = -1

---------------------------------------------------------------------------
(* Score bounds *)

InRange(v) == IsNumber(v) => (0 <= v.n /\ v.n <= MaxScore)

\* C16: in every snapshot returned, the composite score and each of the
\* seven indicator scores lie in [0, 100], whatever the upstream document
\* carries.
C16_ScoresInRange ==
    Returned =>
        /\ InRange(built.obj.score)
        /\ \A i \in 1..NumIndicators :
               InRange(all_indicators(built.obj)[i].score)

---------------------------------------------------------------------------
(* Independent callers of the constructor *)

\* The identity a constructor call gives its object: object creation always
\* yields an object no other name refers to.
NewObjectShared(h) == 1

NewObject(h) == Len(h) + 1

\* The heap with object id (re)initialised.
Allocate(h, id, obj) ==
    IF id > Len(h) THEN Append(h, obj) ELSE [h EXCEPT ![id] = obj]

\* Caller c enters CNNFearAndGreedIndex(): a new object gets the defaults of
\* __init__ (lines 60-75), then _load_fear_and_greed sends the GET and the
\* caller waits for the answer.
CallerEnters(c) ==
    /\ callers[c].pc = "idle"
    /\ \E id \in {NewObject(heap)} :
          /\ heap' = Allocate(heap, id, EmptyIndex)
          /\ callers' = [callers EXCEPT ![c].pc = "fetching", ![c].self = id]
    /\ calls' = calls + 1
    /\ UNCHANGED <<upstream, compactOk, totalGets, built, fetchRes, now, cache,
                   answers, replies,
                   tools, requests, loop, watch>>

\* The answer to caller c's GET arrives: _get_fear_greed_data returns the
\* document or raises, with whatever the endpoint answers at that moment.
CallerReceives(c) ==
    /\ callers[c].pc = "fetching"
    /\ \E fetched \in {GetFearGreedData(upstream)} :
          /\ callers' = [callers EXCEPT
                            ![c].fetched = fetched,
                            ![c].exc = fetched.exc,
                            ![c].pc = IF fetched.exc # NoExc THEN "raised"
                                      ELSE "loading"]
          /\ totalGets' = totalGets + fetched.gets
    /\ UNCHANGED <<upstream, compactOk, calls, built, fetchRes, now, cache,
                   answers, replies, heap,
                   tools, requests, loop, watch>>

\* Caller c runs lines 83-128 on its own object and its own document, and
\* the constructor returns the object or raises.
CallerLoads(c) ==
    /\ callers[c].pc = "loading"
    /\ \E loaded \in {LoadFearAndGreed(heap[callers[c].self],
                                       callers[c].fetched.doc, compactOk)} :
          /\ heap' = [heap EXCEPT ![callers[c].self] = loaded.obj]
          /\ callers' = [callers EXCEPT
                            ![c].exc = loaded.exc,
                            ![c].pc = IF loaded.exc # NoExc THEN "raised"
                                      ELSE "done"]
    /\ UNCHANGED <<upstream, compactOk, calls, totalGets, built, fetchRes,
                   now, cache, answers, replies,
                   tools, requests, loop, watch>>

\* What the endpoint answers while several callers are at work.
CallerUpstreams ==
    {Response(200, Body(DisplayDoc(20 * Scale, "fear", <<0, 0, 0, 0>>))),
     Response(200, Body(DisplayDoc(72 * Scale + 3, "greed",
                                   <<70 * Scale, 65 * Scale, 50 * Scale, 0>>))),
     Response(200, Body(PyDict(<<KV("fear_and_greed_historical",
                                    PyDict(<<KV("data",
                                               PyList(<<Point(86400000, 30 * Scale,
                                                              "fear")>>))>>)),
                                 KV("safe_haven_demand", PyStr("n/a"))>>))),
     NoResponse("timeout")}

\* The endpoint publishes something else.
UpstreamChanges ==
    /\ upstream' \in CallerUpstreams \ {upstream}
    /\ UNCHANGED <<compactOk, calls, totalGets, built, fetchRes, now, cache,
                   answers, replies, callers, heap,
                   tools, requests, loop, watch>>

CallersInit ==
    /\ upstream \in CallerUpstreams
    /\ compactOk \in BOOLEAN
    /\ Idle

CallersNext ==
    \/ \E c \in Callers : CallerEnters(c)
    \/ \E c \in Callers : CallerReceives(c)
    \/ \E c \in Callers : CallerLoads(c)
    \/ UpstreamChanges

SpecCallers == CallersInit /\ [][CallersNext]_vars

\* The callers whose constructor call returned a snapshot.
Done == {c \in Callers : callers[c].pc = "done"}

\* C17: under any interleaving of the callers' steps, each call returns an
\* object of its own whose fields are those of a build from the document
\* that very call fetched, and they stay so whatever the other callers do
\* afterwards.
C17_NoSharedState ==
    /\ \A c, d \in Done : c # d => callers[c].self # callers[d].self
    /\ \A c \in Done :
           heap[callers[c].self] =
               LoadFearAndGreed(EmptyIndex, callers[c].fetched.doc,
                                compactOk).obj

\* C17 witness: two callers hold snapshots of two different documents, the
\* second having entered before the first one's answer arrived.
C17_Witness ==
    /\ Done = Callers
    /\ heap[callers[1].self].score = PyNum(20 * Scale)
    /\ heap[callers[2].self].score = PyNum(72 * Scale + 3)
    /\ callers[1].self = 2
    /\ callers[2].self = 1

---------------------------------------------------------------------------
(* Read operations: the getters and reports of the core, the REST routes,
   the history of the three front-ends *)

\* What a read operation leaves: the object it read as it is afterwards, the
\* exception it raised if any, and what it returned.
ReadResult(self, exc, out) == [self |-> self, exc |-> exc, out |-> out]

\* CNNFearAndGreedIndex.get_index_summary, lines 179-186: the values the
\* text is formatted from.
get_index_summary(self) ==
    ReadResult(self,
               FirstExc(<<NeedsNumber(self.score), NeedsString(self.rating),
                          NeedsNumber(self.previous_close),
                          NeedsNumber(self.previous_1_week),
                          NeedsNumber(self.previous_1_month),
                          NeedsNumber(self.previous_1_year)>>),
               <<self.score, self.rating, self.previous_close,
                 self.previous_1_week, self.previous_1_month,
                 self.previous_1_year>>)

\* FearAndGreedIndicator.get_report, lines 75-80.
get_report(ind) ==
    ReadResult(ind,
               FirstExc(<<NeedsString(ind.rating), NeedsNumber(ind.score)>>),
               <<ind.name, ind.rating, ind.score, ind.timestamp>>)

\* CNNFearAndGreedIndex.get_indicators_report, lines 188-193.
get_indicators_report(self) ==
    ReadResult(self,
               FirstExc(MapSeq(LAMBDA ind : get_report(ind).exc,
                               all_indicators(self))),
               MapSeq(LAMBDA ind : get_report(ind).out, all_indicators(self)))

\* CNNFearAndGreedIndex.get_complete_report, lines 195-197.
get_complete_report(self) ==
    ReadResult(self,
               FirstExc(<<get_index_summary(self).exc,
                          get_indicators_report(self).exc>>),
               <<get_index_summary(self).out, get_indicators_report(self).out>>)

\* The getters with one return statement, lines 143-177, by attribute.
Getters ==
    {"score", "rating", "junk_bond_demand", "market_volatility",
     "put_call_options", "market_momentum", "stock_price_strength",
     "stock_price_breadth", "safe_haven_demand"}

CoreMethods ==
    Getters \cup {"get_index_summary", "get_indicators_report",
                  "get_complete_report", "get_historical_data",
                  "all_indicators"}

\* fgi.<method>() on a snapshot the caller holds.
CoreCall(method, self) ==
    CASE method \in Getters -> ReadResult(self, NoExc, self[method])
      [] method = "get_index_summary" -> get_index_summary(self)
      [] method = "get_indicators_report" -> get_indicators_report(self)
      [] method = "get_complete_report" -> get_complete_report(self)
      [] method = "get_historical_data" ->
             ReadResult(self, NoExc, get_historical_data(self))
      [] method = "all_indicators" ->
             ReadResult(self, NoExc, all_indicators(self))

\* The caller that built a snapshot calls one of its read methods.
CoreRead ==
    /\ built.fetches > 0
    /\ built.exc = NoExc
    /\ \E method \in CoreMethods :
          \E res \in {CoreCall(method, built.obj)} :
             /\ built' = [built EXCEPT !.obj = res.self, !.self = res.self]
             /\ replies' = [replies EXCEPT !["core"] =
                               [exc |-> res.exc, ran |-> TRUE,
                                method |-> method, out |-> res.out]]
    /\ UNCHANGED <<upstream, compactOk, calls, totalGets, fetchRes, now,
                   cache, answers, callers, heap,
                   tools, requests, loop, watch>>

\* lst[-n:]: the last n items, all of them when there are fewer; -0 is 0, so
\* lst[-0:] is lst[0:]; for a negative n the items from position -n on.
PySliceLast(items, n) ==
    IF n = 0 THEN items
    ELSE IF n > 0
    THEN SubSeq(items, (IF Len(items) > n THEN Len(items) - n ELSE 0) + 1,
                Len(items))
    ELSE SubSeq(items, (IF Len(items) > -n THEN -n ELSE Len(items)) + 1,
                Len(items))

\* fgi.get_historical_data()[-limit:]: TypeError when the series is no list
\* or the limit no integer.
LastPoints(fgi, limit) ==
    IF get_historical_data(fgi).t # "list" \/ ~IsNumber(limit)
    THEN [exc |-> "TypeError", points |-> <<>>]
    ELSE [exc |-> NoExc,
          points |-> PySliceLast(Items(get_historical_data(fgi)), limit.n)]

\* datetime.isoformat() and datetime.strftime("%Y-%m-%d") of an instant.
IsoFormat(dt) == [t |-> "str", n |-> dt.n, s |-> "isoformat", m |-> <<>>]

StrfDate(dt) == [t |-> "str", n |-> dt.n \div 86400, s |-> "%Y-%m-%d", m |-> <<>>]

\* The default of the `limit` query parameter, of --limit and of `days`.
REST_DEFAULT_LIMIT == 30

CLI_DEFAULT_LIMIT == 10

MCP_DEFAULT_DAYS == 10

\* An argument that was passed, or the default.
ArgOr(arg, default) == IF arg = Unbound THEN PyNum(default) ELSE arg

\* api_server.get_historical, lines 128-140, after get_fgi(): the date, the
\* score and the rating of each of the last `limit` points, oldest first.
HistoricalRows(points) ==
    MapSeq(LAMBDA d : [date |-> IsoFormat(FromTimestampMs(DictGet(d, "x", PyNone)).value),
                       score |-> DictGet(d, "y", PyNone),
                       rating |-> DictGet(d, "rating", PyNone)],
           points)

HistoricalRowsExc(points) ==
    FirstExc(MapSeq(LAMBDA d : FirstExc(<<PointNumberExc(d, "x"),
                                          SubscriptExc(d, "y"),
                                          SubscriptExc(d, "rating")>>),
                    points))

get_historical_in_place(fgi, limit) ==
    LET last == LastPoints(fgi, ArgOr(limit, REST_DEFAULT_LIMIT))
        exc == FirstExc(<<last.exc, HistoricalRowsExc(last.points)>>)
    IN ReadResult(IF last.exc = NoExc
                  THEN [fgi EXCEPT !.historical_data = PyList(last.points)]
                  ELSE fgi,
                  exc,
                  IF exc # NoExc THEN <<>> ELSE HistoricalRows(last.points))

get_historical(fgi, limit) ==
    LET last == LastPoints(fgi, ArgOr(limit, REST_DEFAULT_LIMIT))
        exc == FirstExc(<<last.exc, HistoricalRowsExc(last.points)>>)
    IN ReadResult(fgi, exc,
                  IF exc # NoExc THEN <<>> ELSE HistoricalRows(last.points))

\* api_server.get_fear_greed, lines 59-80, after get_fgi(): the response
\* model takes numbers, strings and an optional datetime.
get_fear_greed(fgi) ==
    ReadResult(fgi,
               FirstExc(<<NeedsNumber(fgi.score),
                          IF IsString(fgi.rating) THEN NoExc ELSE "ValidationError",
                          NeedsNumber(fgi.previous_close),
                          NeedsNumber(fgi.previous_1_week),
                          NeedsNumber(fgi.previous_1_month),
                          NeedsNumber(fgi.previous_1_year)>>
                        \o MapSeq(LAMBDA ind :
                                      IF IsNumber(ind.score) /\ IsString(ind.rating)
                                      THEN NoExc ELSE "ValidationError",
                                  all_indicators(fgi))),
               <<fgi.score, fgi.rating, fgi.previous_close, fgi.previous_1_week,
                 fgi.previous_1_month, fgi.previous_1_year, fgi.timestamp,
                 MapSeq(LAMBDA ind : <<ind.name, ind.score, ind.rating,
                                       ind.timestamp>>,
                        all_indicators(fgi))>>)

\* api_server.get_score, lines 82-86, after get_fgi().
get_score(fgi) == ReadResult(fgi, NoExc, <<fgi.score, fgi.rating>>)

\* The status FastAPI answers with: the app registers no exception handler
\* and no route catches anything, so an exception that leaves a route is
\* answered 500 Internal Server Error; a route that returns is answered 200.
HttpStatus(exc) == IF exc # NoExc THEN 500 ELSE 200

\* A REST route has called get_fgi(), which answered `got`, and run its
\* body on the snapshot the cache holds, which left `res`.
Routed(route, arg, got, res) ==
    /\ calls < MaxCalls
    /\ calls' = calls + got.calls
    /\ totalGets' = totalGets + got.gets
    /\ cache' = IF got.exc # NoExc THEN got.cache
                ELSE [got.cache EXCEPT !.data = res.self]
    /\ replies' = [replies EXCEPT !["api_route"] =
                      IF got.exc # NoExc
                      THEN [exc |-> got.exc, ran |-> TRUE, route |-> route,
                            arg |-> arg, out |-> <<>>,
                            status |-> HttpStatus(got.exc)]
                      ELSE [exc |-> res.exc, ran |-> TRUE, route |-> route,
                            arg |-> arg, out |-> res.out,
                            status |-> HttpStatus(res.exc)]]
    /\ UNCHANGED <<upstream, compactOk, built, fetchRes, now, answers,
                   callers, heap,
                   tools, requests, loop, watch>>

\* GET /.
ApiGetFearGreed ==
    \E got \in {GetFgi(cache, now, upstream, compactOk)} :
        Routed("/", Unbound, got, get_fear_greed(got.fgi))

\* GET /score.
ApiGetScore ==
    \E got \in {GetFgi(cache, now, upstream, compactOk)} :
        Routed("/score", Unbound, got, get_score(got.fgi))

\* The limits asked for: none (the default applies), or 0..MaxLimit.
MaxLimit == 4

Limits == {Unbound} \cup {PyNum(n) : n \in 0..MaxLimit}

\* GET /historical and GET /historical?limit=N.
ApiGetHistorical ==
    \E limit \in Limits, got \in {GetFgi(cache, now, upstream, compactOk)} :
        Routed("/historical", limit, got, get_historical(got.fgi, limit))

\* One row of `fgi history`, lines 259-270, and of the MCP history, lines
\* 171-172.
CliHistoryRow(point) ==
    [date |-> StrfDate(FromTimestampMs(DictGet(point, "x", PyNone)).value),
     score |-> DictGet(point, "y", PyNone),
     rating |-> DictGet(point, "rating", PyNone),
     color |-> cli_get_color_for_score(DictGet(point, "y", PyNone).n),
     emoji |-> get_emoji_for_score(DictGet(point, "y", PyNone).n)]

McpHistoryRow(point) ==
    [date |-> StrfDate(FromTimestampMs(DictGet(point, "x", PyNone)).value),
     score |-> DictGet(point, "y", PyNone),
     rating |-> DictGet(point, "rating", PyNone)]

\* fgi_cli.history, lines 241-273, after load_data(): the last `limit`
\* points, newest first.
CliHistoryReply(fgi, limit) ==
    LET last == LastPoints(fgi, ArgOr(limit, CLI_DEFAULT_LIMIT))
        exc == FirstExc(<<last.exc>>
                        \o MapSeq(LAMBDA d :
                                      FirstExc(<<PointNumberExc(d, "x"),
                                                 PointNumberExc(d, "y"),
                                                 SubscriptExc(d, "rating"),
                                                 NeedsString(DictGet(d, "rating", PyNone))>>),
                                  Reversed(last.points)))
    IN [exc |-> exc, ran |-> TRUE, arg |-> limit,
        shown |-> ArgOr(limit, CLI_DEFAULT_LIMIT),
        out |-> IF exc # NoExc THEN <<>>
                ELSE MapSeq(CliHistoryRow, Reversed(last.points))]

\* fgi_mcp_server.call_tool("get_fear_greed_history"), lines 164-174: the
\* last `days` points, newest first.
McpHistoryReply(fgi, days) ==
    LET last == LastPoints(fgi, ArgOr(days, MCP_DEFAULT_DAYS))
        exc == FirstExc(<<last.exc>>
                        \o MapSeq(LAMBDA d :
                                      FirstExc(<<PointNumberExc(d, "x"),
                                                 PointNumberExc(d, "y"),
                                                 SubscriptExc(d, "rating")>>),
                                  Reversed(last.points)))
    IN [exc |-> exc, ran |-> TRUE, arg |-> days,
        shown |-> ArgOr(days, MCP_DEFAULT_DAYS),
        out |-> IF exc # NoExc THEN <<>>
                ELSE MapSeq(McpHistoryRow, Reversed(last.points))]

\* `fgi history` and `fgi history --limit N`.
CliHistory ==
    \E limit \in Limits, made \in {Construct(upstream, compactOk)} :
        Handled("cli_history", made, CliHistoryReply(made.obj, limit))

\* The MCP tool get_fear_greed_history, with and without `days`.
McpHistory ==
    \E days \in Limits, made \in {Construct(upstream, compactOk)} :
        Handled("mcp_history", made, McpHistoryReply(made.obj, days))

\* Documents with a chronological series of 0..MaxPoints daily points.
HistoryPoint(i) ==
    Point(86400000 * i, (30 + 10 * i) * Scale + i,
          IF i < 2 THEN "fear" ELSE "neutral")

HistoryDoc(n) ==
    PyDict(<<KV("fear_and_greed",
                PyDict(<<KV("score", PyNum(50 * Scale)),
                         KV("rating", PyStr("neutral"))>>)),
             KV("fear_and_greed_historical",
                PyDict(<<KV("data", PyList([i \in 1..n |-> HistoryPoint(i)]))>>)),
             KV("junk_bond_demand", FullIndicator(1))>>)

ReadUpstreams ==
    {Response(200, Body(HistoryDoc(n))) : n \in 0..MaxPoints}
    \cup {NoResponse("timeout")}

ReadsInit ==
    /\ upstream \in ReadUpstreams
    /\ compactOk \in BOOLEAN
    /\ Idle

ReadsNext ==
    \/ NewIndex
    \/ CoreRead
    \/ ApiGetFearGreed
    \/ ApiGetScore
    \/ ApiGetHistorical
    \/ CliHistory
    \/ McpHistory

SpecReads == ReadsInit /\ [][ReadsNext]_vars

\* C18: no read operation changes a snapshot: a step that does not replace
\* the REST cache entry leaves every field of the cached snapshot, of its
\* indicators and of its historical points as it was, and so does every
\* method call on a snapshot a caller holds.
C18_NoMutation ==
    [][/\ (cache.data # PyNone /\ cache'.timestamp = cache.timestamp) =>
              cache'.data = cache.data
       /\ (built.fetches > 0 /\ built.exc = NoExc /\ calls' = calls) =>
              built'.obj = built.obj]_vars

\* C18 witness: the cached snapshot and a caller's snapshot, both with a
\* series of three points, after GET /historical?limit=1 answered one point
\* and get_complete_report() was called: both still hold the three points.
C18_Witness ==
    /\ replies["api_route"].ran
    /\ replies["api_route"].route = "/historical"
    /\ replies["api_route"].arg = PyNum(1)
    /\ Len(replies["api_route"].out) = 1
    /\ cache.data # PyNone
    /\ Len(Items(cache.data.historical_data)) = 3
    /\ replies["core"].ran
    /\ replies["core"].method = "get_complete_report"
    /\ replies["core"].exc = NoExc
    /\ built.obj = cache.data

---------------------------------------------------------------------------
(* The REST cache over time *)

\* The longest time a behaviour covers, in seconds.
MaxTime == 400

\* Time passes on the server.
Tick ==
    /\ \E d \in {100, 101} :
          /\ now + d <= MaxTime
          /\ now' = now + d
    /\ UNCHANGED <<upstream, compactOk, calls, totalGets, built, fetchRes,
                   cache, answers, replies, callers, heap,
                   tools, requests, loop, watch>>

\* A call of api_server.get_fgi(), as the first statement of every route
\* makes it: what it returned, with the age of the cache entry it found.
ApiGetFgi ==
    /\ calls < MaxCalls
    /\ \E got \in {GetFgi(cache, now, upstream, compactOk)} :
          /\ cache' = got.cache
          /\ calls' = calls + got.calls
          /\ totalGets' = totalGets + got.gets
          /\ replies' = [replies EXCEPT !["get_fgi"] =
                            [exc |-> got.exc, ran |-> TRUE, at |-> now,
                             empty |-> (cache.data = PyNone
                                        \/ cache.timestamp = PyNone),
                             age |-> IF cache.timestamp = PyNone THEN 0
                                     ELSE now - cache.timestamp.n,
                             made |-> got.calls, gets |-> got.gets,
                             fgi |-> got.fgi,
                             same |-> (got.cache = cache /\ got.fgi = cache.data),
                             stored |-> got.cache]]
    /\ UNCHANGED <<upstream, compactOk, built, fetchRes, now, answers,
                   callers, heap,
                   tools, requests, loop, watch>>

RestInit ==
    /\ upstream \in CallerUpstreams
    /\ compactOk \in BOOLEAN
    /\ Idle

RestNext == Tick \/ UpstreamChanges \/ ApiGetFgi

SpecRest == RestInit /\ [][RestNext]_vars

\* C19: get_fgi fetches and builds exactly when the cache is empty or its
\* entry is more than 300 seconds old; otherwise it returns the very
\* snapshot the cache holds, issues no fetch and leaves the cache as it is.
C19_CacheWindow ==
    LET r == replies["get_fgi"] IN
    r.ran =>
        /\ r.made \in {0, 1}
        /\ (r.made = 1) <=> (r.empty \/ r.age > 300)
        /\ r.made = 1 =>
               /\ r.gets = 1
               /\ r.exc = NoExc =>
                      r.stored = [data |-> r.fgi, timestamp |-> PyDatetime(r.at)]
        /\ r.made = 0 =>
               /\ r.gets = 0
               /\ r.exc = NoExc
               /\ r.same

\* C19 witness: a second call exactly 300 seconds after the first returned
\* the cached snapshot after a single fetch, although the endpoint publishes
\* another score by now.
C19_Witness ==
    LET r == replies["get_fgi"] IN
    /\ r.ran
    /\ r.at = now
    /\ r.made = 0
    /\ r.age = 300
    /\ totalGets = 1
    /\ r.fgi = cache.data
    /\ r.fgi.score = PyNum(20 * Scale)
    /\ upstream.kind = "response"
    /\ UpstreamScore = 72 * Scale + 3

---------------------------------------------------------------------------
(* History limits *)

\* The series the upstream document carries, oldest point first.
UpstreamSeries == Items(RawSeries(upstream.body.json))

\* The replies of the three history requests that were answered, each with
\* its documented default and the order it lists the points in.
HistoryReplies ==
    (IF replies["api_route"].ran /\ replies["api_route"].exc = NoExc
        /\ replies["api_route"].route = "/historical"
     THEN {[reply |-> replies["api_route"], default |-> 30,
            newestFirst |-> FALSE]}
     ELSE {})
    \cup {[reply |-> replies[h], default |-> 10, newestFirst |-> TRUE] :
             h \in {h \in {"cli_history", "mcp_history"} : Displayed(h)}}

\* C20: a history request with limit N >= 0 (the default when none is
\* given: 30 for REST, 10 for the CLI and the MCP tool) answers the N most
\* recent points of the series, or the whole series when it has fewer, and
\* never more than N points.
C20_HistoryLimit ==
    \A q \in HistoryReplies :
        LET N == IF q.reply.arg = Unbound THEN q.default ELSE q.reply.arg.n
            out == q.reply.out
            size == Len(UpstreamSeries)
            count == IF N < size THEN N ELSE size
        IN /\ Len(out) <= N
           /\ Len(out) = count
           /\ \A i \in 1..Len(out) :
                  out[i].score =
                      DictGet(UpstreamSeries[IF q.newestFirst
                                             THEN size + 1 - i
                                             ELSE size - count + i],
                              "y", Unbound)

---------------------------------------------------------------------------
(* The MCP adapter *)

\* fgi_mcp_server.list_tools, lines 27-97: the tools in the order listed,
\* each with its name and the properties of its input schema.
list_tools_without_report ==
    <<[name |-> "get_fear_greed_score", properties |-> {}],
      [name |-> "get_fear_greed_indicators", properties |-> {}],
      [name |-> "get_fear_greed_comparison", properties |-> {}],
      [name |-> "get_trading_signal", properties |-> {}],
      [name |-> "get_fear_greed_history", properties |-> {"days"}]>>

list_tools ==
    <<[name |-> "get_fear_greed_score", properties |-> {}],
      [name |-> "get_fear_greed_indicators", properties |-> {}],
      [name |-> "get_fear_greed_comparison", properties |-> {}],
      [name |-> "get_trading_signal", properties |-> {}],
      [name |-> "get_fear_greed_history", properties |-> {"days"}],
      [name |-> "get_complete_report", properties |-> {}]>>

\* f"{v:.1f}" raises ValueError on a string and TypeError on any other value
\* that is no number.
FormatExc(v) ==
    IF IsNumber(v) THEN NoExc
    ELSE IF IsString(v) THEN "ValueError"
    ELSE "TypeError"

\* mcp.types.TextContent(type="text", text=...).
TextContent(text) == [type |-> "text", text |-> text]

\* The text a tool formats, or the exception formatting raised.
ToolText(exc, text) == [exc |-> exc, text |-> IF exc # NoExc THEN Unbound ELSE text]

\* fgi_mcp_server.get_fgi_data, lines 22-24. The variant returns the
\* snapshot of the call before, when there is one.
get_fgi_data_reusing(up, tzOk) ==
    IF tools.last.ran /\ tools.last.fetches > 0 /\ tools.last.made.exc = NoExc
    THEN [tools.last.made EXCEPT !.gets = 0]
    ELSE Construct(up, tzOk)

get_fgi_data(up, tzOk) == Construct(up, tzOk)

\* call_tool("get_fear_greed_score"), lines 106-112.
McpScoreText(fgi) ==
    ToolText(FormatExc(fgi.score),
             <<"CNN Fear & Greed Index", "Score: ", FormatPlain(fgi.score.n),
               "/100", "Rating: ", fgi.rating, "Timestamp: ",
               IF Truthy(fgi.timestamp) THEN StrfDate(fgi.timestamp) ELSE "N/A">>)

\* call_tool("get_fear_greed_indicators"), lines 117-120.
McpIndicatorsText(fgi) ==
    ToolText(FirstExc(MapSeq(LAMBDA ind : FormatExc(ind.score),
                             all_indicators(fgi))),
             <<"Fear & Greed Indicators">>
             \o MapSeq(LAMBDA ind : <<ind.name, FormatPlain(ind.score.n), ind.rating>>,
                       all_indicators(fgi)))

\* call_tool("get_fear_greed_comparison"), lines 124-132.
McpComparisonText(fgi) ==
    ToolText(McpCompareReply(fgi).exc,
             <<"Fear & Greed Comparison", McpCompareReply(fgi)>>)

\* call_tool("get_trading_signal"), lines 138-161.
McpSignalText(fgi) ==
    ToolText(McpSignal(fgi).exc,
             <<"Trading Signal: ", McpSignal(fgi).signal, "Score: ",
               FormatPlain(fgi.score.n), fgi.rating, "Analysis: ",
               McpSignal(fgi).recommendation>>)

\* call_tool("get_fear_greed_history"), lines 167-172, for the value `days`
\* of arguments.get("days", 10).
McpHistoryText(fgi, days) ==
    ToolText(McpHistoryReply(fgi, days).exc,
             <<"Fear & Greed History (Last ", ArgOr(days, MCP_DEFAULT_DAYS),
               " Days)">> \o McpHistoryReply(fgi, days).out)

\* call_tool("get_complete_report"), line 178.
McpReportText(fgi) ==
    ToolText(get_complete_report(fgi).exc, get_complete_report(fgi).out)

\* A branch of call_tool that called get_fgi_data() and formatted `body`
\* from the snapshot it returned: one text item, unless something raised.
ToolAnswer(name, made, body) ==
    [ran |-> TRUE, name |-> name, fetches |-> 1, gets |-> made.gets,
     made |-> made,
     exc |-> IF made.exc # NoExc THEN made.exc ELSE body.exc,
     content |-> IF made.exc # NoExc THEN <<>>
                 ELSE IF body.exc # NoExc THEN <<>>
                 ELSE <<TextContent(body.text)>>]

\* The else branch of call_tool, lines 180-181.
UnknownToolAnswer(name) ==
    [ran |-> TRUE, name |-> name, fetches |-> 0, gets |-> 0, made |-> Unbound,
     exc |-> NoExc,
     content |-> <<TextContent(<<"Unknown tool: ", name>>)>>]

\* The branches of call_tool, lines 104-181, once get_fgi_data() returned
\* `made` in the branch taken. `arguments` is the value under "days", Unbound
\* when the key is absent.
ToolBranch(name, arguments, made) ==
    IF name = "get_fear_greed_score"
    THEN ToolAnswer(name, made, McpScoreText(made.obj))
    ELSE IF name = "get_fear_greed_indicators"
    THEN ToolAnswer(name, made, McpIndicatorsText(made.obj))
    ELSE IF name = "get_fear_greed_comparison"
    THEN ToolAnswer(name, made, McpComparisonText(made.obj))
    ELSE IF name = "get_trading_signal"
    THEN ToolAnswer(name, made, McpSignalText(made.obj))
    ELSE IF name = "get_fear_greed_history"
    THEN ToolAnswer(name, made, McpHistoryText(made.obj, arguments))
    ELSE IF name = "get_complete_report"
    THEN ToolAnswer(name, made, McpReportText(made.obj))
    ELSE UnknownToolAnswer(name)

\* The variant answers "Unknown tool" to get_complete_report.
call_tool_without_report(name, arguments, up, tzOk) ==
    IF name = "get_complete_report" THEN UnknownToolAnswer(name)
    ELSE ToolBranch(name, arguments, get_fgi_data(up, tzOk))

\* fgi_mcp_server.call_tool, lines 100-181.
call_tool(name, arguments, up, tzOk) ==
    ToolBranch(name, arguments, get_fgi_data(up, tzOk))

\* Tool names a client may send: the six of the listing and some others.
ToolNames ==
    {"get_fear_greed_score", "get_fear_greed_indicators",
     "get_fear_greed_comparison", "get_trading_signal",
     "get_fear_greed_history", "get_complete_report",
     "unknown_tool_name", "", "get_score", "GET_TRADING_SIGNAL", "list_tools"}

\* The `days` a client may send, Unbound for none.
ToolArguments == {Unbound, PyNum(1), PyNum(MaxLimit)}

\* A client asks for the listing.
McpListTools ==
    /\ tools.listed = Unbound
    /\ tools' = [tools EXCEPT !.listed = list_tools]
    /\ UNCHANGED <<upstream, compactOk, calls, totalGets, built, fetchRes, now,
                   cache, answers, replies, callers, heap, requests, loop, watch>>

\* A client calls a tool: the names called so far, what the endpoint published
\* when the last call was made, and the answer to it.
McpCallTool ==
    /\ Len(tools.names) < MaxCalls
    /\ \E name \in ToolNames, arguments \in ToolArguments :
          \E res \in {call_tool(name, arguments, upstream, compactOk)} :
             /\ tools' = [tools EXCEPT !.names = Append(@, name),
                                       !.asked = upstream, !.last = res]
             /\ calls' = calls + res.fetches
             /\ totalGets' = totalGets + res.gets
    /\ UNCHANGED <<upstream, compactOk, built, fetchRes, now, cache, answers,
                   replies, callers, heap, requests, loop, watch>>

ToolsInit ==
    /\ upstream \in CallerUpstreams
    /\ compactOk \in BOOLEAN
    /\ Idle

ToolsNext == McpListTools \/ McpCallTool \/ UpstreamChanges

SpecTools == ToolsInit /\ [][ToolsNext]_vars

\* The six tools the adapter documents.
DocumentedTools ==
    {"get_fear_greed_score", "get_fear_greed_indicators",
     "get_fear_greed_comparison", "get_trading_signal",
     "get_fear_greed_history", "get_complete_report"}

\* The names of a listing.
ListedNames(listing) == {listing[i].name : i \in 1..Len(listing)}

\* The last call was answered "Unknown tool".
AnsweredUnknown ==
    /\ tools.last.exc = NoExc
    /\ Len(tools.last.content) = 1
    /\ tools.last.content[1].text[1] = "Unknown tool: "

\* C21: the listing holds exactly the six documented tools, each once, and
\* call_tool answers "Unknown tool" exactly to the names the listing lacks.
C21_ListedToolsHandled ==
    /\ tools.listed # Unbound =>
          /\ Len(tools.listed) = 6
          /\ ListedNames(tools.listed) = DocumentedTools
    /\ tools.last.ran =>
          (AnsweredUnknown <=> tools.last.name \notin ListedNames(list_tools))

\* C21 witness: the client has the listing, called get_complete_report and
\* got a text, after a name that is no tool was answered "Unknown tool".
C21_Witness ==
    /\ tools.listed # Unbound
    /\ tools.names = <<"get_score", "get_complete_report">>
    /\ tools.last.name = "get_complete_report"
    /\ tools.last.exc = NoExc
    /\ Len(tools.last.content) = 1
    /\ ~AnsweredUnknown

\* The calls so far that named one of the six tools.
KnownCalls ==
    Cardinality({i \in 1..Len(tools.names) : tools.names[i] \in DocumentedTools})

\* C22: every call of one of the six tools makes one constructor call with
\* one GET and answers from the document the endpoint publishes at that
\* moment, so the GETs issued equal the calls that named a known tool; a call
\* with any other name issues no GET and returns the single text item
\* "Unknown tool: <name>".
C22_OneFetchPerToolCall ==
    /\ totalGets = KnownCalls
    /\ calls = KnownCalls
    /\ (tools.last.ran /\ tools.last.name \in DocumentedTools) =>
          /\ tools.last.fetches = 1
          /\ tools.last.gets = 1
          /\ tools.asked.kind # "response" => tools.last.exc \in TransportExcs
          /\ tools.asked.kind = "response" =>
                /\ tools.last.made.fetched.doc = tools.asked.body.json
                /\ (/\ tools.last.name = "get_fear_greed_score"
                    /\ IsNumber(RawField(tools.asked.body.json, "score"))) =>
                       /\ Len(tools.last.content) = 1
                       /\ tools.last.content[1].text[3] = FormatPlain(RawField(tools.asked.body.json, "score").n)
    /\ (tools.last.ran /\ tools.last.name \notin DocumentedTools) =>
          /\ tools.last.fetches = 0
          /\ tools.last.gets = 0
          /\ tools.last.content =
                <<[type |-> "text", text |-> <<"Unknown tool: ", tools.last.name>>]>>

\* C22 witness: the score tool was called twice, each call issued a GET, and
\* the second answer shows the score the endpoint publishes by now.
C22_Witness ==
    /\ tools.names = <<"get_fear_greed_score", "get_fear_greed_score">>
    /\ totalGets = 2
    /\ tools.asked.kind = "response"
    /\ RawField(tools.asked.body.json, "score") = PyNum(72 * Scale + 3)
    /\ tools.last.content[1].text[3] = [prefix |-> "", tenths |-> 723]

\* C22 witness: a name that is no tool was answered without a GET, after a
\* call of a tool.
C22_WitnessUnknown ==
    /\ tools.names = <<"get_trading_signal", "unknown_tool_name">>
    /\ totalGets = 1
    /\ tools.last.content[1].text = <<"Unknown tool: ", "unknown_tool_name">>

---------------------------------------------------------------------------
(* REST failures *)

\* C23: a REST request whose fetch failed with a transport error is answered
\* with HTTP status 502, on every route.
C23_TransportFailureIs502 ==
    LET r == replies["api_route"] IN
    (r.ran /\ r.exc \in TransportExcs) => r.status = 502

---------------------------------------------------------------------------
(* Concurrent REST requests *)

\* The routes a request may ask for here.
ServedRoutes == {"/", "/score"}

\* Every route is an `async def` without an await, and get_fgi is a plain
\* function: the event loop runs a request from its first line to its
\* return before it runs another one. Request r may take a step when the
\* loop runs it already or runs nothing. The variant runs each request on a
\* thread of its own, as FastAPI does with a route declared `def`.
MayStepInThread(r) == TRUE

MayStep(r) == loop \in {0, r}

\* The request has entered get_fgi and not left it.
InGetFgi(r) == requests[r].pc \in {"line52", "line55", "line56", "line57"}

\* A request as it arrives: whether the cache is empty and the event loop
\* busy at that moment, and how the request before it on the same connection
\* ended, if there was one.
NewRequest(after) ==
    [pc |-> "line51", route |-> "", after |-> after,
     empty |-> (cache.data = PyNone), busy |-> (loop # 0),
     refreshed |-> FALSE, order |-> 0, now |-> 0, found |-> Unbound,
     fetches |-> 0, fgi |-> Unbound, exc |-> NoExc, out |-> Unbound,
     status |-> 0]

\* A request arrives and waits for the event loop. Which of the routes it is
\* for shows only in what the route does once get_fgi has returned.
RequestArrives(r) ==
    /\ requests[r].pc = "idle"
    /\ requests' = [requests EXCEPT ![r] = NewRequest("")]
    /\ UNCHANGED <<upstream, compactOk, calls, totalGets, built, fetchRes, now,
                   cache, answers, replies, callers, heap, tools, loop, watch>>

\* The cache after line 55 raised: the constructor is called before anything
\* is assigned, so both fields are as they were. The variant has line 56
\* before line 55.
FailedBuildStamped(c, clock) == [c EXCEPT !.timestamp = PyDatetime(clock)]

FailedBuild(c, clock) == c

\* The right-hand side of line 56: the local `now` of line 51. The variant
\* reads the clock again.
StampAtAssignment(r) == now

StampOf(r) == requests[r].now

\* get_fgi line 51: now = datetime.now().
GetFgiLine51(r) ==
    /\ requests[r].pc = "line51"
    /\ MayStep(r)
    /\ loop' = r
    /\ requests' = [requests EXCEPT
                       ![r].pc = "line52",
                       ![r].now = now,
                       ![r].order = Cardinality({q \in Requests :
                                         requests[q].pc \notin {"idle", "line51"}})]
    /\ UNCHANGED <<upstream, compactOk, calls, totalGets, built, fetchRes, now,
                   cache, answers, replies, callers, heap, tools, watch>>

\* get_fgi lines 52-54: the condition, on the cache as it is now.
GetFgiLine52(r) ==
    /\ requests[r].pc = "line52"
    /\ MayStep(r)
    /\ loop' = r
    /\ requests' = [requests EXCEPT
                       ![r].found = cache,
                       ![r].pc = IF \/ cache.data = PyNone
                                    \/ cache.timestamp = PyNone
                                    \/ requests[r].now - cache.timestamp.n > 300
                                 THEN "line55" ELSE "line57"]
    /\ UNCHANGED <<upstream, compactOk, calls, totalGets, built, fetchRes, now,
                   cache, answers, replies, callers, heap, tools, watch>>

\* get_fgi line 55: _cache["data"] = CNNFearAndGreedIndex(). The constructor
\* blocks until the endpoint has answered; when it raises, nothing is
\* assigned and the exception leaves the route.
GetFgiLine55(r) ==
    /\ requests[r].pc = "line55"
    /\ MayStep(r)
    /\ \E made \in {Construct(upstream, compactOk)} :
          /\ calls' = calls + 1
          /\ totalGets' = totalGets + made.gets
          /\ IF made.exc # NoExc
             THEN /\ cache' = FailedBuild(cache, requests[r].now)
                  /\ loop' = 0
                  /\ replies' = replies
                  /\ requests' = [requests EXCEPT
                                     ![r].pc = "raised",
                                     ![r].fetches = 1,
                                     ![r].exc = made.exc,
                                     ![r].status = HttpStatus(made.exc)]
             ELSE /\ cache' = [cache EXCEPT !.data = made.obj]
                  /\ loop' = r
                  /\ replies' = [replies EXCEPT !["cache_build"] =
                                    [exc |-> NoExc, ran |-> TRUE,
                                     at |-> requests[r].now, fgi |-> made.obj]]
                  /\ requests' = [requests EXCEPT ![r].pc = "line56",
                                                  ![r].fetches = 1,
                                                  ![r].refreshed = TRUE]
    /\ UNCHANGED <<upstream, compactOk, built, fetchRes, now, answers,
                   callers, heap, tools, watch>>

\* get_fgi line 56: _cache["timestamp"] = now.
GetFgiLine56(r) ==
    /\ requests[r].pc = "line56"
    /\ MayStep(r)
    /\ loop' = r
    /\ cache' = [cache EXCEPT !.timestamp = PyDatetime(StampOf(r))]
    /\ requests' = [requests EXCEPT ![r].pc = "line57"]
    /\ UNCHANGED <<upstream, compactOk, calls, totalGets, built, fetchRes, now,
                   answers, replies, callers, heap, tools, watch>>

\* get_fgi line 57: return _cache["data"]; then the rest of the route, which
\* ends the request's turn on the event loop.
GetFgiLine57(r) ==
    /\ requests[r].pc = "line57"
    /\ MayStep(r)
    /\ loop' = 0
    /\ \E route \in ServedRoutes :
       \E res \in {IF route = "/" THEN get_fear_greed(cache.data)
                   ELSE get_score(cache.data)} :
          requests' = [requests EXCEPT
                          ![r].pc = IF res.exc # NoExc THEN "raised" ELSE "done",
                          ![r].route = route,
                          ![r].fgi = cache.data,
                          ![r].exc = res.exc,
                          ![r].out = res.out,
                          ![r].status = HttpStatus(res.exc)]
    /\ UNCHANGED <<upstream, compactOk, calls, totalGets, built, fetchRes, now,
                   cache, answers, replies, callers, heap, tools, watch>>

ServerInit ==
    /\ upstream \in CallerUpstreams
    /\ compactOk \in BOOLEAN
    /\ Idle

ServerNext ==
    \/ Tick
    \/ \E r \in Requests : RequestArrives(r)
    \/ \E r \in Requests : GetFgiLine51(r)
    \/ \E r \in Requests : GetFgiLine52(r)
    \/ \E r \in Requests : GetFgiLine55(r)
    \/ \E r \in Requests : GetFgiLine56(r)
    \/ \E r \in Requests : GetFgiLine57(r)

SpecServer == ServerInit /\ [][ServerNext]_vars

\* The request has evaluated the condition of lines 52-54.
Checked(r) == requests[r].pc \in {"line55", "line56", "line57", "done", "raised"}

\* C24: the check-and-refresh of get_fgi is one atomic unit of work. At most
\* one request is inside get_fgi at a time; no request finds the cache with
\* a snapshot and no timestamp; and once a request has refreshed the cache,
\* no request that entered get_fgi after it and within 300 seconds of it
\* fetches again, so requests that arrive together on an empty or expired
\* cache cause one fetch when it succeeds.
C24_AtomicRefresh ==
    /\ Cardinality({r \in Requests : InGetFgi(r)}) <= 1
    /\ \A r \in Requests :
          Checked(r) =>
              ((requests[r].found.data = PyNone)
                   <=> (requests[r].found.timestamp = PyNone))
    /\ \A r, q \in Requests :
          (/\ r # q
           /\ requests[r].pc # "idle" /\ requests[r].refreshed
           /\ Checked(q)
           /\ requests[q].order > requests[r].order
           /\ requests[q].now - requests[r].now <= 300) =>
              /\ requests[q].fetches = 0
              /\ requests[q].pc # "line55"

\* C24 witness: the second request arrived while the first was inside get_fgi
\* and the cache was empty; both were answered, from one GET.
C24_Witness ==
    /\ requests[1].pc = "done" /\ requests[2].pc = "done"
    /\ requests[1].empty /\ requests[1].refreshed
    /\ requests[2].empty /\ requests[2].busy
    /\ requests[2].fetches = 0
    /\ requests[2].fgi = requests[1].fgi
    /\ totalGets = 1

---------------------------------------------------------------------------
(* REST requests one after the other, with a failing endpoint *)

\* The endpoint stops answering, or answers again.
EndpointFlips ==
    /\ upstream' = IF upstream.kind = "response" THEN NoResponse("timeout")
                   ELSE Response(200, Body(DisplayDoc(72 * Scale + 3, "greed",
                                                      <<70 * Scale, 65 * Scale,
                                                        50 * Scale, 0>>)))
    /\ UNCHANGED <<compactOk, calls, totalGets, built, fetchRes, now, cache,
                   answers, replies, callers, heap, tools, requests, loop, watch>>

\* How a request ended.
Outcome(req) ==
    IF req.pc = "raised" /\ req.fetches = 1 /\ ~req.refreshed THEN "fetch failed"
    ELSE IF req.pc = "raised" THEN "route raised"
    ELSE "answered"

\* The client sends its next request once the one before was answered.
RequestFollows ==
    /\ requests[1].pc \in {"done", "raised"}
    /\ calls < MaxCalls
    /\ requests' = [requests EXCEPT ![1] = NewRequest(Outcome(requests[1]))]
    /\ UNCHANGED <<upstream, compactOk, calls, totalGets, built, fetchRes, now,
                   cache, answers, replies, callers, heap, tools, loop, watch>>

OneByOneNext ==
    \/ Tick
    \/ EndpointFlips
    \/ RequestArrives(1)
    \/ RequestFollows
    \/ GetFgiLine51(1)
    \/ GetFgiLine52(1)
    \/ GetFgiLine55(1)
    \/ GetFgiLine56(1)
    \/ GetFgiLine57(1)

SpecOneByOne == ServerInit /\ [][OneByOneNext]_vars

\* C25: when the constructor inside get_fgi raises, the cache keeps both
\* fields as the call found them, the exception reaches the caller and
\* nothing is returned, not even the expired snapshot; and the call after
\* a failed one fetches again.
C25_FailedRefresh ==
    LET req == requests[1] IN
    /\ (req.pc = "raised" /\ req.fetches = 1 /\ ~req.refreshed) =>
          /\ cache = req.found
          /\ req.exc # NoExc
          /\ req.fgi = Unbound
          /\ req.out = Unbound
          /\ req.status # 200
    /\ (req.pc # "idle" /\ req.after = "fetch failed" /\ Checked(1)) =>
          \/ req.pc = "line55"
          \/ req.fetches = 1

\* C25 witness: a request found a snapshot more than 300 seconds old, the
\* endpoint did not answer, and the request failed with the cache left as it
\* was.
C25_Witness ==
    /\ requests[1].pc = "raised"
    /\ requests[1].exc \in TransportExcs
    /\ requests[1].found.data # PyNone
    /\ requests[1].now - requests[1].found.timestamp.n > 300
    /\ cache = requests[1].found

\* C25 witness: the request after a failed one fetched again and was
\* answered.
C25_WitnessRetry ==
    /\ requests[1].pc = "done"
    /\ requests[1].after = "fetch failed"
    /\ requests[1].fetches = 1
    /\ requests[1].refreshed

\* C26: whenever no request is inside get_fgi, the cache holds a snapshot
\* exactly when it holds a timestamp, and the timestamp is the clock value
\* that the call which built the snapshot read at line 51.
C26_CachePair ==
    loop = 0 =>
        /\ (cache.data = PyNone) <=> (cache.timestamp = PyNone)
        /\ cache.timestamp # PyNone =>
              /\ replies["cache_build"].ran
              /\ cache.data = replies["cache_build"].fgi
              /\ cache.timestamp = PyDatetime(replies["cache_build"].at)

\* C26 witness: a request built the cache with the clock it read at 100
\* seconds, and a request 201 seconds later has been answered from it.
C26_Witness ==
    /\ loop = 0
    /\ requests[1].pc = "done"
    /\ requests[1].after = "answered"
    /\ requests[1].fetches = 0
    /\ requests[1].now = 301
    /\ cache.timestamp = PyDatetime(100)
    /\ cache.data = requests[1].fgi
    /\ totalGets = 1

---------------------------------------------------------------------------
(* The CLI text gauge *)

\* Python floats are IEEE 754 doubles: 53 significant bits, every operation
\* rounded to the nearest double, ties to the even one. A double that is
\* not zero is kept as its 53 bits, most significant first, and the exponent
\* e of 0.b1 b2 ... b53 * 2^e.
MantissaBits == 53

RECURSIVE Pow2(_)
Pow2(n) == IF n = 0 THEN 1 ELSE 2 * Pow2(n - 1)

Zeros(n) == [i \in 1..n |-> 0]

\* The n lowest bits of a natural number, most significant first.
Bin(x, n) == [i \in 1..n |-> (x \div Pow2(n - i)) % 2]

\* The natural number a bit string spells.
RECURSIVE Nat2(_)
Nat2(bits) ==
    IF bits = <<>> THEN 0
    ELSE 2 * Nat2(SubSeq(bits, 1, Len(bits) - 1)) + bits[Len(bits)]

\* Bit strings are worked on 13 bits at a time.
LimbBits == 13

\* The limbs of a bit string whose length is a multiple of 13, most
\* significant first, and the bit string of a sequence of limbs.
LimbsOf(bits) ==
    [k \in 1..(Len(bits) \div LimbBits) |->
        Nat2(SubSeq(bits, LimbBits * (k - 1) + 1, LimbBits * k))]

BitsOf(limbs) ==
    [i \in 1..(LimbBits * Len(limbs)) |->
        Bin(limbs[(i - 1) \div LimbBits + 1], LimbBits)[((i - 1) % LimbBits) + 1]]

\* Long division of a sequence of limbs by a small divisor d, with the
\* remainder r carried in and the quotient limbs found so far in q: the
\* quotient and the last remainder.
RECURSIVE DivLimbs(_, _, _, _)
DivLimbs(limbs, d, r, q) ==
    IF limbs = <<>> THEN [q |-> q, r |-> r]
    ELSE DivLimbs(Tail(limbs), d, (r * Pow2(LimbBits) + Head(limbs)) % d,
                  Append(q, (r * Pow2(LimbBits) + Head(limbs)) \div d))

\* A sequence of limbs times a small factor w, from the least significant
\* limb up with the carry c; the product has one limb more.
RECURSIVE MulLimbs(_, _, _)
MulLimbs(limbs, w, c) ==
    IF limbs = <<>> THEN <<c>>
    ELSE Append(MulLimbs(SubSeq(limbs, 1, Len(limbs) - 1), w,
                         (limbs[Len(limbs)] * w + c) \div Pow2(LimbBits)),
                (limbs[Len(limbs)] * w + c) % Pow2(LimbBits))

\* A bit string plus one: the last 0 becomes 1 and the 1s after it 0; the
\* carry out of the top bit is 1 when all bits were 1.
Increment(bits) ==
    IF \A i \in 1..Len(bits) : bits[i] = 1
    THEN [bits |-> Zeros(Len(bits)), carry |-> 1]
    ELSE [bits |-> [i \in 1..Len(bits) |->
                       IF \E j \in i..Len(bits) : bits[j] = 0
                       THEN (IF \E j \in (i + 1)..Len(bits) : bits[j] = 0
                             THEN bits[i] ELSE 1)
                       ELSE 0],
          carry |-> 0]

FloatZero == [zero |-> TRUE, bits |-> <<>>, exp |-> 0]

\* The exact value 0.bits * 2^e, with a leading 1 (plus something below the
\* last bit when `sticky`), rounded to the nearest double, ties to even.
RoundNormal(bits, e, sticky) ==
    IF Len(bits) <= MantissaBits
    THEN [zero |-> FALSE, bits |-> bits \o Zeros(MantissaBits - Len(bits)),
          exp |-> e]
    ELSE LET m == SubSeq(bits, 1, MantissaBits)
             half == bits[MantissaBits + 1]
             below == sticky \/ \E i \in (MantissaBits + 2)..Len(bits) : bits[i] = 1
             up == half = 1 /\ (below \/ m[MantissaBits] = 1)
             inc == Increment(m)
         IN IF ~up THEN [zero |-> FALSE, bits |-> m, exp |-> e]
            ELSE IF inc.carry = 1
            THEN [zero |-> FALSE, bits |-> <<1>> \o Zeros(MantissaBits - 1),
                  exp |-> e + 1]
            ELSE [zero |-> FALSE, bits |-> inc.bits, exp |-> e]

\* The same for a bit string that may start with zeros.
RoundToDouble(bits, e, sticky) ==
    IF \A i \in 1..Len(bits) : bits[i] = 0 THEN FloatZero
    ELSE LET first == CHOOSE i \in 1..Len(bits) :
                          /\ bits[i] = 1
                          /\ \A j \in 1..(i - 1) : bits[j] = 0
         IN RoundNormal(SubSeq(bits, first, Len(bits)), e - (first - 1), sticky)

\* The double nearest to n / d, for naturals n < 2^13 and d: what a score
\* of n units is as a Python float.
FloatOf(n, d) ==
    LET res == DivLimbs(<<n, 0, 0, 0, 0, 0, 0>>, d, 0, <<>>)
    IN RoundToDouble(BitsOf(res.q), LimbBits, res.r # 0)

\* x / d for a double x and a small natural d.
FloatDiv(x, d) ==
    IF x.zero THEN FloatZero
    ELSE LET res == DivLimbs(LimbsOf(x.bits \o Zeros(6 * LimbBits - 1)), d, 0, <<>>)
         IN RoundToDouble(BitsOf(res.q), x.exp, res.r # 0)

\* x * w for a double x and a natural w < 2^13.
FloatMul(x, w) ==
    IF x.zero THEN FloatZero
    ELSE RoundToDouble(BitsOf(MulLimbs(LimbsOf(Zeros(5 * LimbBits - MantissaBits)
                                               \o x.bits), w, 0)),
                       x.exp + 6 * LimbBits - MantissaBits, FALSE)

\* int(x) for a double x >= 0: the integer part.
IntOf(x) ==
    IF x.zero \/ x.exp <= 0 THEN 0
    ELSE Nat2(SubSeq(x.bits, 1, x.exp))

\* int((score / 100) * width) of lines 46 and 51, for a score given in
\* units; int() truncates towards zero.
GaugeCellsExact(score, width) == (score * width) \div (100 * Scale)

GaugeCells(score, width) ==
    IF score < 0
    THEN -IntOf(FloatMul(FloatDiv(FloatOf(-score, Scale), 100), width))
    ELSE IntOf(FloatMul(FloatDiv(FloatOf(score, Scale), 100), width))

\* The default of the width parameter of create_gauge, line 44.
DEFAULT_WIDTH == 56

\* label_offset of line 52, the length of "FEAR 0 ".
label_offset == 7

\* f"{score:.0f}" of line 58 for a score given in units: the nearest whole
\* number, a half going to the even one.
FormatWhole(score) ==
    LET q == score \div Scale
        r == score % Scale
    IN IF 2 * r < Scale THEN q
       ELSE IF 2 * r > Scale THEN q + 1
       ELSE IF q % 2 = 0 THEN q ELSE q + 1

\* fgi_cli.create_gauge, lines 44-69: the numbers of filled and of empty
\* cells of the bar, the colour, the number of blanks before the pointer and
\* the number written after it. score / 100 of line 46 raises TypeError for
\* a score that is no number.
create_gauge(score, width) ==
    IF NeedsNumber(score) # NoExc
    THEN [exc |-> NeedsNumber(score), ran |-> TRUE]
    ELSE [exc |-> NoExc, ran |-> TRUE,
          score |-> score.n,
          width |-> width,
          filled |-> GaugeCells(score.n, width),
          empty |-> width - GaugeCells(score.n, width),
          color |-> cli_get_color_for_score(score.n),
          blanks |-> label_offset + GaugeCells(score.n, width),
          label |-> FormatWhole(score.n)]

\* The widths the gauge is drawn with: none, one cell, fifty cells, and the
\* default.
GaugeWidths == {0, 1, 50, DEFAULT_WIDTH}

\* The scores the gauge is drawn for: every score from 0 to 100 in units, and
\* the null a document can carry.
GaugeScores == {PyNum(k) : k \in 0..(100 * Scale)} \cup {PyNone}

\* A caller draws the gauge.
CliCreateGauge ==
    /\ replies["create_gauge"] = NoReply
    /\ \E score \in GaugeScores, width \in GaugeWidths :
          replies' = [replies EXCEPT !["create_gauge"] = create_gauge(score, width)]
    /\ UNCHANGED <<upstream, compactOk, calls, totalGets, built, fetchRes, now,
                   cache, answers, callers, heap, tools, requests, loop, watch>>

GaugeInit ==
    /\ upstream = NoResponse("timeout")
    /\ compactOk = TRUE
    /\ Idle

GaugeNext == CliCreateGauge

SpecGauge == GaugeInit /\ [][GaugeNext]_vars

\* C29: for every score in [0, 100] and every width w >= 0 the bar has
\* exactly w cells, floor(score * w / 100) of them filled and the rest empty,
\* and the pointer is placed as many cells in as there are filled cells.
C29_GaugeCellsAreFloor ==
    LET g == replies["create_gauge"]
    IN (g.ran /\ g.exc = NoExc /\ g.width >= 0
        /\ g.score >= 0 /\ g.score <= 100 * Scale)
       => /\ g.filled + g.empty = g.width
          /\ g.filled >= 0 /\ g.empty >= 0
          /\ g.filled = GaugeCellsExact(g.score, g.width)
          /\ g.blanks = label_offset + g.filled

---------------------------------------------------------------------------
(* The CLI watch mode *)

\* The argument of sleep() at line 337.
SLEEP_SECONDS == 60

\* What the endpoint may answer while the watch runs: the answers of
\* CallerUpstreams, and two documents with a null score.
WatchUpstreams ==
    CallerUpstreams
    \cup {Response(200, Body(PyDict(<<KV("fear_and_greed",
                                         PyDict(<<KV("score", PyNone)>>))>>))),
          Response(200, Body(PyDict(<<KV("fear_and_greed",
                                         PyDict(<<KV("score", PyNum(50 * Scale)),
                                                  KV("rating", PyStr("neutral"))>>)),
                                      KV("put_call_options",
                                         PyDict(<<KV("score", PyNone)>>))>>)))}

\* The endpoint starts answering something else.
UpstreamTurns ==
    /\ upstream' \in WatchUpstreams \ {upstream}
    /\ UNCHANGED <<compactOk, calls, totalGets, built, fetchRes, now, cache,
                   answers, replies, callers, heap, tools, requests, loop, watch>>

\* Where an exception of load_data or of the rendering leaves the loop: the
\* try of line 308 has one handler, for KeyboardInterrupt (line 338), so any
\* other exception leaves watch().
CaughtInWatch(exc) == "sleep"

UncaughtInWatch(exc) == "crashed"

\* Lines 313-328: the panel with the gauge, the score and the rating.
WatchPanel(fgi) ==
    LET exc == FirstExc(<<NeedsNumber(fgi.score),
                          create_gauge(fgi.score, DEFAULT_WIDTH).exc,
                          FormatExc(fgi.score),
                          NeedsString(fgi.rating)>>)
    IN IF exc # NoExc THEN Raises(exc)
       ELSE [exc |-> NoExc, ran |-> TRUE,
             color |-> cli_get_color_for_score(fgi.score.n),
             emoji |-> get_emoji_for_score(fgi.score.n),
             gauge |-> create_gauge(fgi.score, DEFAULT_WIDTH),
             score |-> FormatPlain(fgi.score.n)]

\* Lines 331-334: one row per indicator, each printed before the next is
\* computed; the number of rows printed and the exception that ended the loop.
WatchRows(fgi) ==
    LET scores == IndicatorScores(fgi)
        bad == {i \in 1..Len(scores) : NeedsNumber(scores[i]) # NoExc}
    IN IF bad = {} THEN [exc |-> NoExc, rows |-> Len(scores)]
       ELSE LET first == CHOOSE i \in bad : \A j \in bad : i <= j
            IN [exc |-> NeedsNumber(scores[first]), rows |-> first - 1]

\* watch() up to the loop, lines 303-309.
WatchStarts ==
    /\ watch.pc = "off"
    /\ watch' = [watch EXCEPT !.pc = "load", !.out = "header"]
    /\ UNCHANGED <<upstream, compactOk, calls, totalGets, built, fetchRes, now,
                   cache, answers, replies, callers, heap, tools, requests, loop>>

\* Lines 310-311: the screen is cleared and load_data() builds a snapshot.
WatchLoads ==
    /\ watch.pc = "load"
    /\ \E made \in {Construct(upstream, compactOk)} :
          /\ built' = made
          /\ totalGets' = totalGets + made.gets
          /\ watch' =
                IF made.exc = NoExc
                THEN [watch EXCEPT !.pc = "render",
                                   !.loads = @ + 1,
                                   !.out = "",
                                   !.lastLoad = now,
                                   !.gap = IF watch.lastLoad < 0 THEN 0
                                           ELSE now - watch.lastLoad]
                ELSE [watch EXCEPT !.pc = UncaughtInWatch(made.exc),
                                   !.loads = @ + 1,
                                   !.out = "",
                                   !.exc = made.exc,
                                   !.failed = "load",
                                   !.loadsAtEnd = watch.loads + 1]
    /\ UNCHANGED <<upstream, compactOk, calls, fetchRes, now, cache, answers,
                   replies, callers, heap, tools, requests, loop>>

\* Lines 313-336: the panel, the indicator rows and the closing line.
WatchRenders ==
    /\ watch.pc = "render"
    /\ \E panel \in {WatchPanel(built.obj)}, rows \in {WatchRows(built.obj)} :
          watch' =
             IF panel.exc # NoExc
             THEN [watch EXCEPT !.pc = UncaughtInWatch(panel.exc),
                                !.exc = panel.exc,
                                !.failed = "render",
                                !.loadsAtEnd = watch.loads]
             ELSE IF rows.exc # NoExc
             THEN [watch EXCEPT !.pc = UncaughtInWatch(rows.exc),
                                !.out = "panel",
                                !.rows = rows.rows,
                                !.exc = rows.exc,
                                !.failed = "render",
                                !.loadsAtEnd = watch.loads]
             ELSE [watch EXCEPT !.pc = "sleep",
                                !.out = "press ctrl+c",
                                !.rows = rows.rows,
                                !.renders = @ + 1]
    /\ UNCHANGED <<upstream, compactOk, calls, totalGets, built, fetchRes, now,
                   cache, answers, replies, callers, heap, tools, requests, loop>>

\* Line 337: sleep(60) returns.
WatchSleeps ==
    /\ watch.pc = "sleep"
    /\ now + SLEEP_SECONDS <= MaxTime
    /\ now' = now + SLEEP_SECONDS
    /\ watch' = [watch EXCEPT !.pc = "load", !.sleeps = @ + 1]
    /\ UNCHANGED <<upstream, compactOk, calls, totalGets, built, fetchRes,
                   cache, answers, replies, callers, heap, tools, requests, loop>>

\* Ctrl+C while the loop runs, lines 338-339.
WatchInterrupted ==
    /\ watch.pc \in {"load", "render", "sleep"}
    /\ watch' = [watch EXCEPT !.pc = "stopped", !.out = "Stopped watching.",
                              !.loadsAtEnd = watch.loads]
    /\ UNCHANGED <<upstream, compactOk, calls, totalGets, built, fetchRes, now,
                   cache, answers, replies, callers, heap, tools, requests, loop>>

WatchInit ==
    /\ upstream \in WatchUpstreams
    /\ compactOk \in BOOLEAN
    /\ Idle

WatchNext ==
    \/ WatchStarts
    \/ WatchLoads
    \/ WatchRenders
    \/ WatchSleeps
    \/ WatchInterrupted
    \/ UpstreamTurns

SpecWatch == WatchInit /\ [][WatchNext]_vars

\* C27: watch mode refreshes every 60 seconds until the user interrupts it:
\* while the loads succeed it never stops on its own, exactly one sleep of
\* 60 s lies between two consecutive loads, and Ctrl+C at any point of the
\* loop ends it with "Stopped watching." and no error.
C27_NeverStopsOnItsOwn == watch.failed # "" => watch.failed = "load"

C27_OneSleepBetweenLoads ==
    /\ watch.pc = "load" => watch.sleeps = watch.loads
    /\ watch.pc \in {"render", "sleep"} => watch.sleeps = watch.loads - 1
    /\ (watch.loads >= 2 /\ watch.failed # "load" /\ watch.lastLoad >= 0)
          => watch.gap = SLEEP_SECONDS

C27_InterruptStops ==
    watch.pc = "stopped" => watch.out = "Stopped watching." /\ watch.exc = NoExc

C27_WatchUntilInterrupted ==
    /\ C27_NeverStopsOnItsOwn
    /\ C27_OneSleepBetweenLoads
    /\ C27_InterruptStops

\* C28: a failed load ends the watch loop: the exception is not caught,
\* nothing is rendered for that iteration, and no load follows, whatever the
\* endpoint answers afterwards.
C28_FailedLoadEndsWatch ==
    watch.failed = "load"
       => /\ watch.pc = "crashed"
          /\ watch.exc # NoExc
          /\ watch.out # "Stopped watching."
          /\ watch.renders = watch.loads - 1
          /\ watch.out = ""
          /\ watch.loads = watch.loadsAtEnd
          /\ built.exc = watch.exc

\* The endpoint failed once, after a refresh that went well, and answers
\* again: the watch stays ended.
C28_Witness ==
    /\ watch.failed = "load"
    /\ watch.loads >= 2
    /\ watch.exc \in TransportExcs
    /\ upstream.kind = "response"

---------------------------------------------------------------------------
(* Lookup of an indicator by its own name *)

\* The positions, in the order of all_indicators, of the indicators whose
\* canonical name was asked for in some letter case.
AskedByName(query) ==
    {j \in 1..NumIndicators : query \in CaseVariants(CanonicalNames[j])}

\* C30: the lookup called with an indicator's own canonical name, in any
\* letter case, answers that indicator (its name, score, rating and
\* timestamp), and no indicator earlier in the fixed order.
C30_LookupRoundTrip ==
    LET r == replies["api_indicator"]
    IN (r.ran /\ r.exc = NoExc /\ cache.data # PyNone) =>
          \A j \in AskedByName(r.query) :
              /\ r.found
              /\ r.name = CanonicalNames[j]
              /\ r.name = all_indicators(cache.data)[j].name
              /\ r.score = all_indicators(cache.data)[j].score
              /\ r.rating = all_indicators(cache.data)[j].rating
              /\ r.timestamp = all_indicators(cache.data)[j].timestamp
              /\ \A i \in 1..(j - 1) : r.name # CanonicalNames[i]

\* "STOCK PRICE BREADTH" is answered with Stock Price Breadth, the sixth
\* indicator, and not with Stock Price Strength before it.
C30_Witness ==
    /\ replies["api_indicator"].ran
    /\ replies["api_indicator"].exc = NoExc
    /\ replies["api_indicator"].query = Upper(NameChars("Stock Price Breadth"))
    /\ AskedByName(replies["api_indicator"].query) = {6}
    /\ replies["api_indicator"].found
    /\ replies["api_indicator"].name = "Stock Price Breadth"
    /\ replies["api_indicator"].score = PyNum(60 * Scale + 6)

=============================================================================
